---- MODULE Spec2Model ----
(***************************************************************************)
(* A model of the purplship core: the measurement subsystem                *)
(* (purplship/core/units.py: Dimension, Weight), Package / Packages, and   *)
(* the carrier adapters built on them.                                     *)
(*                                                                         *)
(* Numbers.  A Python float is modelled as an exact decimal, held as an    *)
(* integer count of thousandths (1.0 is 1000).  A product with a           *)
(* conversion factor is held as [q, nz]: q thousandths plus a fraction of  *)
(* a thousandth that is non-zero exactly when nz.  None is the empty       *)
(* sequence <<>>, a present value x is <<x>>.                              *)
(***************************************************************************)
EXTENDS Integers, Sequences, FiniteSets, TLC

VARIABLES
    document,   \* clean_namespaces: the envelope that was serialized
    cleaned,    \* clean_namespaces: <<>>, or <<the text it returned>>
    objects,    \* envelope: the generated objects by identity, each [ns_prefix_, original_tagname_]
    calls,      \* envelope: per invocation, its arguments, its position and its envelope
    order,      \* the payload the builders are called with
    clock,      \* the wall clock: the moment it is
    built,      \* the wire objects the builders have returned, in call order
    bag,        \* Options: self._payload, a mapping from keys to entries
    opts,       \* Options: <<>>, or <<the properties read>>
    adapter,    \* adapter: the Mapper or Proxy subclass and the methods it overrides
    called,     \* adapter: <<>>, or <<the method called and its outcome>>
    sides,      \* Girth / Volume: the three sides, each <<>> or <<Dimension>>
    solid,      \* Girth / Volume: <<>>, or <<the properties read>>
    back,       \* units: <<>>, or <<the reading converted back to the first unit>>
    meas,       \* units: the Dimension / Weight under test [kind, value, unit]
    reading,    \* units: <<>> before its accessors are read, <<results>> after
    parcel,     \* Package: self.parcel
    template,   \* Package: the template argument, <<>> or <<PackagePreset>>
    package,    \* Package: <<>> before its properties are read, <<values>> after
    parcels,    \* Packages: the parcels argument
    presets,    \* Packages: the presets argument, <<>> or <<enumeration>>
    required,   \* Packages: the required argument, <<>> or <<list of names>>
    packages,   \* Packages: <<>> before construction, <<outcome>> after
    got,        \* Packages: <<>>, or <<the last property read and its outcome>>
    payload,    \* flow: the RateRequest sent to every carrier of the batch
    stage,      \* flow: per carrier, "pending", "built", "failed" or "sent"
    request,    \* flow: per carrier, <<>> or <<the outcome of its request builder>>
    invoked,    \* flow: the carriers whose transport operation has been invoked
    parser,     \* parse: the response parser the response is handed to
    response,   \* parse: the response tree (an Element)
    parsed      \* parse: <<>>, or <<the outcome of the parser>>

unitVars == <<meas, reading, back>>
packageVars == <<parcel, template, package>>
packagesVars == <<parcels, presets, required, packages, got>>
flowVars == <<payload, stage, request, invoked>>
parseVars == <<parser, response, parsed>>
solidVars == <<sides, solid>>
adapterVars == <<adapter, called>>
optionsVars == <<bag, opts>>
pureVars == <<order, clock, built>>
soapVars == <<objects, calls>>
textVars == <<document, cleaned>>
vars == <<meas, reading, back, parcel, template, package,
          parcels, presets, required, packages, got,
          payload, stage, request, invoked,
          parser, response, parsed, sides, solid,
          adapter, called,
          bag, opts,
          order, clock, built,
          objects, calls,
          document, cleaned>>

\* The variables of a component no operation of which is running.
Idle == "idle"
IdleAdapter == adapter = Idle /\ called = Idle
IdleOptions == bag = Idle /\ opts = Idle
IdlePure == order = Idle /\ clock = Idle /\ built = Idle
IdleSoap == objects = Idle /\ calls = Idle
IdleText == document = Idle /\ cleaned = Idle
IdleUnits == meas = Idle /\ reading = Idle /\ back = Idle
IdlePackage == parcel = Idle /\ template = Idle /\ package = Idle
IdlePackages ==
    /\ parcels = Idle /\ presets = Idle /\ required = Idle
    /\ packages = Idle /\ got = Idle
IdleFlow == payload = Idle /\ stage = Idle /\ request = Idle /\ invoked = Idle
IdleParse == parser = Idle /\ response = Idle /\ parsed = Idle
IdleSolid == sides = Idle /\ solid = Idle

-----------------------------------------------------------------------------
(* Optional values and call outcomes *)

None == <<>>
Some(x) == <<x>>

\* The outcome of a property read: a returned value, or an exception raised.
Ret(v) == [exc |-> "none", val |-> v]
Raised(e) == [exc |-> e, val |-> None]

\* A unit is the enum member's name, or "None" when absent.
NoUnit == "None"

-----------------------------------------------------------------------------
(* Arithmetic on exact decimals *)

\* Conversion factors are written in base-10^4 limbs, least significant first;
\* the last limb is the integer part, the others the fraction's digits.
Base == 100 * 100

RECURSIVE Carry(_, _, _)
Carry(n, C, i) == IF i = 0 THEN 0 ELSE (n * C[i] + Carry(n, C, i - 1)) \div Base

Limb(n, C, i) == (n * C[i] + Carry(n, C, i - 1)) % Base

\* n thousandths times the factor C, exactly.
Times(n, C) ==
    [q  |-> n * C[Len(C)] + Carry(n, C, Len(C) - 1),
     nz |-> \E i \in 1..(Len(C) - 1) : Limb(n, C, i) # 0]

Exact(n) == [q |-> n, nz |-> FALSE]

\* n thousandths divided by 100, exactly.
Over100(n) == [q |-> n \div 100, nz |-> n % 100 # 0]

\* round(x, 2): to the nearest hundredth, a tie going to the even hundredth.
\* (At an exact decimal tie the float's binary digits decide in Python; the
\* value sets of this model hold no input whose result is such a tie.)
Round2(x) ==
    LET d == x.q % 10
        down == x.q - d
    IN  IF d < 5 THEN down
        ELSE IF d > 5 \/ x.nz THEN down + 10
        ELSE IF (down \div 10) % 2 = 0 THEN down ELSE down + 10

\* purplship.core.utils.number.decimal
decimal(value) ==
    IF value = None THEN None ELSE Some(Round2(value[1]))

-----------------------------------------------------------------------------
(* Dimension and Weight (purplship/core/units.py) *)

DimensionUnit == {"CM", "IN"}
WeightUnit == {"KG", "LB"}

\* The factors the accessors multiply with, as the source writes them.
F_0_393701 == <<100, 3937, 0>>
F_2_54 == <<5400, 2>>
F_0_453592 == <<9200, 4535, 0>>
F_2_204620823516057 == <<570, 3516, 2082, 2046, 2>>
F_16 == <<16>>
F_35_274 == <<2740, 35>>

DimensionCM(value, unit) ==
    IF unit = NoUnit \/ value = None THEN Ret(None)
    ELSE IF unit = "CM" THEN Ret(decimal(Some(Exact(value[1]))))
    ELSE Ret(decimal(Some(Times(value[1], F_0_393701))))

DimensionIN(value, unit) ==
    IF unit = NoUnit \/ value = None THEN Ret(None)
    ELSE IF unit = "IN" THEN Ret(decimal(Some(Exact(value[1]))))
    ELSE Ret(decimal(Some(Times(value[1], F_2_54))))

\* self.CM / 100: dividing None raises TypeError.
DivideBy100(cm) ==
    IF cm = None THEN Raised("TypeError") ELSE Ret(Some(Over100(cm[1])))

\* A mutant of Dimension.M: the guard on value and unit is missing.
DimensionMUnguarded(value, unit) ==
    LET d == DivideBy100(DimensionCM(value, unit).val)
    IN  IF d.exc # "none" THEN d ELSE Ret(decimal(d.val))

DimensionM(value, unit) ==
    IF unit = NoUnit \/ value = None THEN Ret(None)
    ELSE LET d == DivideBy100(DimensionCM(value, unit).val)
         IN  IF d.exc # "none" THEN d ELSE Ret(decimal(d.val))

\* self.__getattribute__(str(self._unit.name)): None has no attribute name.
DimensionValue(value, unit) ==
    IF unit = NoUnit THEN Raised("AttributeError")
    ELSE IF unit = "CM" THEN DimensionCM(value, unit)
    ELSE DimensionIN(value, unit)

\* A mutant of Weight.KG: pounds are returned as kilograms, unconverted.
WeightKGUnconverted(value, unit) ==
    IF unit = NoUnit \/ value = None THEN Ret(None)
    ELSE Ret(decimal(Some(Exact(value[1]))))

WeightKG(value, unit) ==
    IF unit = NoUnit \/ value = None THEN Ret(None)
    ELSE IF unit = "KG" THEN Ret(decimal(Some(Exact(value[1]))))
    ELSE IF unit = "LB" THEN Ret(decimal(Some(Times(value[1], F_0_453592))))
    ELSE Ret(None)

\* A mutant of Weight.LB: kilograms are multiplied by 2.2.
WeightLBShortFactor(value, unit) ==
    IF unit = NoUnit \/ value = None THEN Ret(None)
    ELSE IF unit = "LB" THEN Ret(decimal(Some(Exact(value[1]))))
    ELSE IF unit = "KG" THEN Ret(decimal(Some(Times(value[1], <<2000, 2>>))))
    ELSE Ret(None)

WeightLB(value, unit) ==
    IF unit = NoUnit \/ value = None THEN Ret(None)
    ELSE IF unit = "LB" THEN Ret(decimal(Some(Exact(value[1]))))
    ELSE IF unit = "KG" THEN Ret(decimal(Some(Times(value[1], F_2_204620823516057))))
    ELSE Ret(None)

WeightOZ(value, unit) ==
    IF unit = NoUnit \/ value = None THEN Ret(None)
    ELSE IF unit = "LB" THEN Ret(decimal(Some(Times(value[1], F_16))))
    ELSE IF unit = "KG" THEN Ret(decimal(Some(Times(value[1], F_35_274))))
    ELSE Ret(None)

WeightValue(value, unit) ==
    IF unit = NoUnit THEN Raised("AttributeError")
    ELSE IF unit = "KG" THEN WeightKG(value, unit)
    ELSE WeightLB(value, unit)

-----------------------------------------------------------------------------
(* The measurement under test: any Dimension or Weight, its accessors read *)

\* Values are 0, 0.4, 0.8, ... : MaxSteps steps of 0.4.
MaxSteps == 20
MeasValues == {None} \cup {Some(k * 400) : k \in 0..MaxSteps}
\* and weights of three decimals: 0.056, 0.456, 0.856, ...
FineValues == {Some(k * 400 + 56) : k \in 0..MaxSteps}

InitUnits ==
    /\ IdlePackage /\ IdlePackages /\ IdleFlow /\ IdleParse /\ IdleSolid /\ IdleAdapter /\ IdleOptions /\ IdlePure /\ IdleSoap /\ IdleText
    /\ meas \in [kind : {"Dimension"}, value : MeasValues, unit : DimensionUnit \cup {NoUnit}]
                \cup [kind : {"Weight"}, value : MeasValues \cup FineValues,
                       unit : WeightUnit \cup {NoUnit}]
    /\ reading = None
    /\ back = None

ReadDimension ==
    /\ meas.kind = "Dimension"
    /\ reading = None
    /\ reading' = Some([value |-> DimensionValue(meas.value, meas.unit),
                        CM |-> DimensionCM(meas.value, meas.unit),
                        IN_ |-> DimensionIN(meas.value, meas.unit),
                        M |-> DimensionM(meas.value, meas.unit)])
    /\ UNCHANGED <<meas, back, packageVars, packagesVars, flowVars, parseVars, solidVars, adapterVars, optionsVars, pureVars, soapVars, textVars>>

ReadWeight ==
    /\ meas.kind = "Weight"
    /\ reading = None
    /\ reading' = Some([value |-> WeightValue(meas.value, meas.unit),
                        KG |-> WeightKG(meas.value, meas.unit),
                        LB |-> WeightLB(meas.value, meas.unit),
                        OZ |-> WeightOZ(meas.value, meas.unit)])
    /\ UNCHANGED <<meas, back, packageVars, packagesVars, flowVars, parseVars, solidVars, adapterVars, optionsVars, pureVars, soapVars, textVars>>

\* The caller builds a Weight from the reading in the other unit and reads
\* it in the first unit: Weight(Weight(v, KG).LB, LB).KG, and the converse.
OtherUnit(unit) == IF unit = "KG" THEN "LB" ELSE "KG"

WeightIn(value, unit, target) ==
    IF target = "KG" THEN WeightKG(value, unit) ELSE WeightLB(value, unit)

ConvertBack ==
    /\ meas.kind = "Weight" /\ meas.unit \in WeightUnit
    /\ reading # None /\ back = None
    /\ LET other == OtherUnit(meas.unit)
           mid == IF other = "KG" THEN reading[1].KG ELSE reading[1].LB
       IN  back' = Some([mid |-> mid.val,
                         value |-> WeightIn(mid.val, other, meas.unit)])
    /\ UNCHANGED <<meas, reading, packageVars, packagesVars, flowVars, parseVars, solidVars, adapterVars, optionsVars, pureVars, soapVars, textVars>>

NextUnits == ReadDimension \/ ReadWeight \/ ConvertBack

SpecUnits == InitUnits /\ [][NextUnits]_vars

-----------------------------------------------------------------------------
(* Claims about Dimension and Weight *)

\* r (thousandths) is x rounded to 2 decimal places: a whole number of
\* hundredths no further than half a hundredth from x = [q, nz].
IsRounded2(r, x) ==
    /\ r % 10 = 0
    /\ r - 5 <= x.q
    /\ \/ x.q < r + 5
       \/ x.q = r + 5 /\ ~x.nz

\* r (thousandths) is num / den rounded to 2 decimal places.
IsRounded2Ratio(r, num, den) ==
    /\ r % 10 = 0
    /\ (r - 5) * den <= num
    /\ num <= (r + 5) * den

Returned(res) == res.exc = "none" /\ res.val # None

DimensionRead == reading # None /\ meas.kind = "Dimension"
WeightRead == reading # None /\ meas.kind = "Weight"
Present == meas.value # None /\ meas.unit # NoUnit

\* C8: 1 IN = 2.54 CM.  For a Dimension holding v: CM is v (unit CM) or
\* v x 2.54 (unit IN); IN is v (unit IN) or v / 2.54 (unit CM); M is the CM
\* result / 100; each rounded to 2 decimal places.
C8_DimensionConversions ==
    (DimensionRead /\ Present) =>
        LET v == meas.value[1]
            r == reading[1]
        IN  /\ Returned(r.CM) /\ Returned(r.IN_) /\ Returned(r.M)
            /\ IF meas.unit = "CM"
                  THEN /\ IsRounded2(r.CM.val[1], Exact(v))
                       /\ IsRounded2Ratio(r.IN_.val[1], v * 100, 254)
                  ELSE /\ IsRounded2(r.IN_.val[1], Exact(v))
                       /\ IsRounded2Ratio(r.CM.val[1], v * 254, 100)
            /\ IsRounded2(r.M.val[1], Over100(r.CM.val[1]))

\* C9: for a Weight holding v: KG is v (unit KG) or v x 0.453592 (unit LB);
\* LB is v (unit LB) or v x 2.204620823516057 (unit KG); OZ is v x 16 (unit
\* LB) or v x 35.274 (unit KG); each rounded to 2 decimal places; .value is
\* the accessor named by the Weight's own unit.
C9_WeightConversions ==
    (WeightRead /\ Present) =>
        LET v == meas.value[1]
            r == reading[1]
        IN  /\ Returned(r.KG) /\ Returned(r.LB) /\ Returned(r.OZ)
            /\ IF meas.unit = "KG"
                  THEN /\ IsRounded2(r.KG.val[1], Exact(v))
                       /\ IsRounded2(r.LB.val[1], Times(v, <<570, 3516, 2082, 2046, 2>>))
                       /\ IsRounded2Ratio(r.OZ.val[1], v * 35274, 1000)
                       /\ r.value = r.KG
                  ELSE /\ IsRounded2(r.LB.val[1], Exact(v))
                       /\ IsRounded2(r.KG.val[1], Times(v, <<9200, 4535, 0>>))
                       /\ IsRounded2Ratio(r.OZ.val[1], v * 16, 1)
                       /\ r.value = r.LB

\* 2 LB read back: 0.91 KG, 2 LB, 32 OZ.
C9_Witness ==
    /\ WeightRead /\ meas.unit = "LB" /\ meas.value = Some(2000)
    /\ reading[1].KG = Ret(Some(910))
    /\ reading[1].OZ = Ret(Some(32000))

ConvertedBack == back # None /\ back[1].value.exc = "none" /\ back[1].value.val # None

\* |a - b|, in thousandths
Distance(a, b) == IF a >= b THEN a - b ELSE b - a

C10_AbsentGivesNull ==
    (reading # None /\ ~Present) =>
        IF meas.kind = "Dimension"
        THEN /\ reading[1].CM = Ret(None)
             /\ reading[1].IN_ = Ret(None)
             /\ reading[1].M = Ret(None)
        ELSE /\ reading[1].KG = Ret(None)
             /\ reading[1].LB = Ret(None)
             /\ reading[1].OZ = Ret(None)

\* A Dimension with a value and no unit, its accessors read.
C10_Witness ==
    DimensionRead /\ meas.unit = NoUnit /\ meas.value = Some(2000)

-----------------------------------------------------------------------------
(* Package (purplship/core/units.py) *)

\* Python truth of an optional number: None and 0 are false.
Truthy(x) == x # None /\ x[1] # 0

\* a or b, on optional numbers and on optional strings ("None" is None).
Or(a, b) == IF Truthy(a) THEN a ELSE b
OrName(a, b) == IF a # "None" THEN a ELSE b

\* PackagePreset(): the dataclass's defaults.
DefaultPreset ==
    [width |-> None, height |-> None, length |-> None, weight |-> None,
     weight_unit |-> "LB", dimension_unit |-> "IN", packaging_type |-> "None"]

\* Package.__init__: self.preset = template or PackagePreset()
PackagePresetOf(tmpl) == IF tmpl = None THEN DefaultPreset ELSE tmpl[1]

PackageDimensionUnit(pcl, preset) ==
    IF Truthy(pcl.height) \/ Truthy(pcl.width) \/ Truthy(pcl.length)
    THEN OrName(pcl.dimension_unit, preset.dimension_unit)
    ELSE preset.dimension_unit

PackageWeightUnit(pcl, preset) ==
    IF pcl.weight = None THEN preset.weight_unit
    ELSE OrName(pcl.weight_unit, preset.weight_unit)

PackagePackagingType(pcl, preset) ==
    OrName(pcl.packaging_type, preset.packaging_type)

\* A Weight or Dimension object: its _value and _unit.
Measure(value, unit) == [value |-> value, unit |-> unit]

\* A mutant of Package.weight: the preset's weight comes first.
PackageWeightPresetFirst(pcl, preset) ==
    Measure(Or(preset.weight, pcl.weight), PackageWeightUnit(pcl, preset))

PackageWeight(pcl, preset) ==
    Measure(Or(pcl.weight, preset.weight), PackageWeightUnit(pcl, preset))

PackageWidth(pcl, preset) ==
    Measure(Or(preset.width, pcl.width), PackageDimensionUnit(pcl, preset))

PackageHeight(pcl, preset) ==
    Measure(Or(preset.height, pcl.height), PackageDimensionUnit(pcl, preset))

PackageLength(pcl, preset) ==
    Measure(Or(preset.length, pcl.length), PackageDimensionUnit(pcl, preset))

\* The raw values a caller's Parcel and a carrier's PackagePreset may hold.
\* (A carrier's preset fixes positive sizes; a caller may send 0.)
ParcelValues == {None, Some(0), Some(2000)}
PresetValues == {None, Some(10000)}

InitPackage ==
    /\ IdleUnits /\ IdlePackages /\ IdleFlow /\ IdleParse /\ IdleSolid /\ IdleAdapter /\ IdleOptions /\ IdlePure /\ IdleSoap /\ IdleText
    /\ parcel \in [weight : ParcelValues, width : ParcelValues, height : ParcelValues,
                   length : ParcelValues,
                   weight_unit : WeightUnit \cup {NoUnit},
                   dimension_unit : DimensionUnit \cup {NoUnit},
                   packaging_type : {"None"}, package_preset : {"None"}]
    /\ template \in {None} \cup
           {Some(t) : t \in [weight : PresetValues, width : PresetValues,
                             height : PresetValues, length : PresetValues,
                             weight_unit : WeightUnit, dimension_unit : DimensionUnit,
                             packaging_type : {"None"}]}
    /\ package = None

\* Every property of the Package is read.
ReadPackage ==
    /\ package = None
    /\ LET preset == PackagePresetOf(template)
       IN  package' = Some([weight |-> PackageWeight(parcel, preset),
                            width |-> PackageWidth(parcel, preset),
                            height |-> PackageHeight(parcel, preset),
                            length |-> PackageLength(parcel, preset),
                            weight_unit |-> PackageWeightUnit(parcel, preset),
                            dimension_unit |-> PackageDimensionUnit(parcel, preset),
                            packaging_type |-> PackagePackagingType(parcel, preset)])
    /\ UNCHANGED <<parcel, template, unitVars, packagesVars, flowVars, parseVars, solidVars, adapterVars, optionsVars, pureVars, soapVars, textVars>>

NextPackage == ReadPackage

SpecPackage == InitPackage /\ [][NextPackage]_vars

-----------------------------------------------------------------------------
(* Claims about Package *)

Defined(x) == x # None
NonZero(x) == x # None /\ x[1] # 0
ThePreset == PackagePresetOf(template)

\* The original statement of C4: for width, height, length and weight, the
\* effective value is the preset's fixed value when the preset defines one,
\* and the parcel's raw value only otherwise.
C4_PresetValueFirst ==
    package # None =>
        /\ package[1].width.value = (IF Defined(ThePreset.width) THEN ThePreset.width ELSE parcel.width)
        /\ package[1].height.value = (IF Defined(ThePreset.height) THEN ThePreset.height ELSE parcel.height)
        /\ package[1].length.value = (IF Defined(ThePreset.length) THEN ThePreset.length ELSE parcel.length)
        /\ package[1].weight.value = (IF Defined(ThePreset.weight) THEN ThePreset.weight ELSE parcel.weight)

\* C4, amended: for width, height and length the effective value is the
\* preset's fixed value when the preset defines one, and the parcel's raw
\* value only otherwise; for weight it is the parcel's raw value when the
\* parcel gives a non-zero one, and the preset's weight otherwise.
C4_EffectiveValue ==
    package # None =>
        /\ package[1].width.value = (IF Defined(ThePreset.width) THEN ThePreset.width ELSE parcel.width)
        /\ package[1].height.value = (IF Defined(ThePreset.height) THEN ThePreset.height ELSE parcel.height)
        /\ package[1].length.value = (IF Defined(ThePreset.length) THEN ThePreset.length ELSE parcel.length)
        /\ package[1].weight.value = (IF NonZero(parcel.weight) THEN parcel.weight ELSE ThePreset.weight)

\* Parcel and preset both give a width and a weight: the width is the
\* preset's, the weight the parcel's.
C4_Witness ==
    /\ package # None /\ template # None
    /\ parcel.width = Some(2000) /\ ThePreset.width = Some(10000)
    /\ parcel.weight = Some(2000) /\ ThePreset.weight = Some(10000)
    /\ package[1].width.value = Some(10000)
    /\ package[1].weight.value = Some(2000)

\* The unit C5 gives an attribute: the parcel's declared unit when the parcel
\* supplies a raw value for that attribute, else the preset's unit (the hard
\* default LB / IN when there is no preset).
C5_Unit(raw, declared, presetUnit) ==
    IF Defined(raw) /\ declared # NoUnit THEN declared ELSE presetUnit

\* C5: each attribute's effective unit is the parcel's declared unit only
\* when the parcel itself supplies a raw value for that same attribute;
\* otherwise the preset's unit, and without a preset LB for weight and IN
\* for dimensions.
C5_UnitFollowsRawValue ==
    package # None =>
        LET hard == IF template = None
                    THEN [weight_unit |-> "LB", dimension_unit |-> "IN"]
                    ELSE [weight_unit |-> template[1].weight_unit,
                          dimension_unit |-> template[1].dimension_unit]
        IN  /\ package[1].weight.unit = C5_Unit(parcel.weight, parcel.weight_unit, hard.weight_unit)
            /\ package[1].width.unit = C5_Unit(parcel.width, parcel.dimension_unit, hard.dimension_unit)
            /\ package[1].height.unit = C5_Unit(parcel.height, parcel.dimension_unit, hard.dimension_unit)
            /\ package[1].length.unit = C5_Unit(parcel.length, parcel.dimension_unit, hard.dimension_unit)

-----------------------------------------------------------------------------
(* Packages (purplship/core/units.py) *)

\* compute_preset: the preset the parcel names, when the enumeration has it.
compute_preset(enum, pcl) ==
    IF enum = None \/ pcl.package_preset \notin DOMAIN enum[1]
    THEN None
    ELSE Some(enum[1][pcl.package_preset])

\* Package(parcel, template)
Package(pcl, tmpl) == [parcel |-> pcl, preset |-> PackagePresetOf(tmpl)]

\* prop is None or (hasattr(prop, 'value') and prop.value is None), for
\* prop = getattr(package, field).
PropIsMissing(pkg, field) ==
    CASE field = "weight" ->
            LET w == PackageWeight(pkg.parcel, pkg.preset)
            IN  WeightValue(w.value, w.unit).val = None
      [] field = "width" ->
            LET d == PackageWidth(pkg.parcel, pkg.preset)
            IN  DimensionValue(d.value, d.unit).val = None
      [] field = "height" ->
            LET d == PackageHeight(pkg.parcel, pkg.preset)
            IN  DimensionValue(d.value, d.unit).val = None
      [] field = "length" ->
            LET d == PackageLength(pkg.parcel, pkg.preset)
            IN  DimensionValue(d.value, d.unit).val = None
      [] field = "packaging_type" ->
            PackagePackagingType(pkg.parcel, pkg.preset) = "None"

\* f"parcel[{index}].{field}"
ErrorKey(index, field) == "parcel[" \o ToString(index) \o "]." \o field

\* A mutant of the validation loop: it stops at the first violation.
RECURSIVE CollectErrorsFailFast(_, _, _, _)
CollectErrorsFailFast(items, req, k, errors) ==
    IF k = Len(items) * Len(req) \/ errors # {} THEN errors
    ELSE LET index == k \div Len(req)
             field == req[(k % Len(req)) + 1]
         IN  CollectErrorsFailFast(items, req, k + 1,
                 IF PropIsMissing(items[index + 1], field)
                 THEN errors \cup {ErrorKey(index, field)}
                 ELSE errors)

\* The nested loops of Packages.__init__ over enumerate(self._items) and
\* required, step k being package k \div Len(req), field k % Len(req);
\* errors are the keys of the errors dict.
RECURSIVE CollectErrors(_, _, _, _)
CollectErrors(items, req, k, errors) ==
    IF k = Len(items) * Len(req) THEN errors
    ELSE LET index == k \div Len(req)
             field == req[(k % Len(req)) + 1]
         IN  CollectErrors(items, req, k + 1,
                 IF PropIsMissing(items[index + 1], field)
                 THEN errors \cup {ErrorKey(index, field)}
                 ELSE errors)

\* Packages.__init__: the items, and FieldError(errors) when any is recorded.
PackagesInit(pcls, enum, req) ==
    LET items == [i \in 1..Len(pcls) |-> Package(pcls[i], compute_preset(enum, pcls[i]))]
        errors == IF req = None THEN {} ELSE CollectErrors(items, req[1], 0, {})
    IN  [exc |-> IF errors # {} THEN "FieldError" ELSE "none",
         errors |-> errors,
         items |-> items]

\* A mutant of Packages.single: any number of packages is accepted.
PackagesSingleUnchecked(items) ==
    IF Len(items) = 0 THEN Raised("IndexError") ELSE Ret(Some(items[1]))

\* Packages.single: self._items[0] of an empty list raises IndexError.
PackagesSingle(items) ==
    IF Len(items) > 1 THEN Raised("MultiParcelNotSupportedError")
    ELSE IF Len(items) = 0 THEN Raised("IndexError")
    ELSE Ret(Some(items[1]))

\* pkg.weight.LB and pkg.weight.value of one package
ItemWeightLB(pkg) ==
    LET w == PackageWeight(pkg.parcel, pkg.preset) IN WeightLB(w.value, w.unit).val
ItemWeightValue(pkg) ==
    LET w == PackageWeight(pkg.parcel, pkg.preset) IN WeightValue(w.value, w.unit).val

\* sum(pkg.weight.LB for pkg in self._items if pkg.weight.value is not None)
RECURSIVE SumWeightLB(_, _)
SumWeightLB(items, n) ==
    IF n = 0 THEN 0
    ELSE SumWeightLB(items, n - 1)
         + (IF ItemWeightValue(items[n]) # None THEN ItemWeightLB(items[n])[1] ELSE 0)

\* Packages.weight: Weight(unit=LB, value=sum(...) or None)
PackagesWeight(items) ==
    Measure(Or(Some(SumWeightLB(items, Len(items))), None), "LB")

\* The parcels of a payload: at most MaxParcels of them.
MaxParcels == 2
PayloadParcels ==
    [weight : {None, Some(0), Some(4), Some(1000), Some(2500)},
     width : {None}, height : {None}, length : {None},
     weight_unit : WeightUnit, dimension_unit : {NoUnit},
     packaging_type : {"None"}, package_preset : {"None", "envelope"}]
ParcelLists == UNION {[1..n -> PayloadParcels] : n \in 0..MaxParcels}

\* A carrier's enumeration of presets (the presets argument).
CarrierPresets ==
    [envelope |-> [width |-> Some(10000), height |-> Some(12000), length |-> None,
                   weight |-> None, weight_unit |-> "LB", dimension_unit |-> "IN",
                   packaging_type |-> "envelope"]]

RequiredLists ==
    {None, Some(<<"weight">>), Some(<<"weight", "length">>),
     Some(<<"packaging_type", "width">>)}

InitPackages ==
    /\ IdleUnits /\ IdlePackage /\ IdleFlow /\ IdleParse /\ IdleSolid /\ IdleAdapter /\ IdleOptions /\ IdlePure /\ IdleSoap /\ IdleText
    /\ parcels \in ParcelLists
    /\ presets \in {None, Some(CarrierPresets)}
    /\ required \in RequiredLists
    /\ packages = None
    /\ got = None

Construct ==
    /\ packages = None
    /\ packages' = Some(PackagesInit(parcels, presets, required))
    /\ UNCHANGED <<parcels, presets, required, got, unitVars, packageVars, flowVars, parseVars, solidVars, adapterVars, optionsVars, pureVars, soapVars, textVars>>

Constructed == packages # None /\ packages[1].exc = "none"

ReadSingle ==
    /\ Constructed
    /\ got' = Some([property |-> "single", outcome |-> PackagesSingle(packages[1].items)])
    /\ UNCHANGED <<parcels, presets, required, packages, unitVars, packageVars, flowVars, parseVars, solidVars, adapterVars, optionsVars, pureVars, soapVars, textVars>>

ReadTotalWeight ==
    /\ Constructed
    /\ LET w == PackagesWeight(packages[1].items)
       IN  got' = Some([property |-> "weight", outcome |-> Ret(Some(w)),
                        LB |-> WeightLB(w.value, w.unit)])
    /\ UNCHANGED <<parcels, presets, required, packages, unitVars, packageVars, flowVars, parseVars, solidVars, adapterVars, optionsVars, pureVars, soapVars, textVars>>

NextPackages == Construct \/ ReadSingle \/ ReadTotalWeight

SpecPackages == InitPackages /\ [][NextPackages]_vars

-----------------------------------------------------------------------------
(* Claims about Packages *)

\* The preset a parcel resolves against.
C1_Preset(pcl) ==
    IF presets # None /\ pcl.package_preset \in DOMAIN presets[1]
    THEN presets[1][pcl.package_preset]
    ELSE DefaultPreset

\* Whether field f of parcel pcl resolves to no value.
C1_Unresolved(pcl, f) ==
    LET preset == C1_Preset(pcl)
    IN  CASE f = "weight" -> ~NonZero(pcl.weight) /\ preset.weight = None
          [] f = "width" -> ~NonZero(preset.width) /\ pcl.width = None
          [] f = "height" -> ~NonZero(preset.height) /\ pcl.height = None
          [] f = "length" -> ~NonZero(preset.length) /\ pcl.length = None
          [] f = "packaging_type" -> pcl.packaging_type = "None" /\ preset.packaging_type = "None"

C1_Violations ==
    {ErrorKey(i - 1, required[1][j]) :
        <<i, j>> \in {x \in (1..Len(parcels)) \X (1..Len(required[1])) :
                        C1_Unresolved(parcels[x[1]], required[1][x[2]])}}

\* C1: with a non-null required list, construction records a violation
\* "parcel[i].f" for every package i and required field f that resolves to
\* null, fails with a FieldError carrying all of them when there is at
\* least one, and succeeds when there is none.
C1_AllViolationsCollected ==
    (packages # None /\ required # None) =>
        /\ packages[1].errors = C1_Violations
        /\ packages[1].exc = (IF C1_Violations # {} THEN "FieldError" ELSE "none")

\* Two parcels without a weight or a preset weight, required = ["weight"]:
\* the FieldError names both.
C1_Witness ==
    /\ packages # None /\ required = Some(<<"weight">>) /\ Len(parcels) = 2
    /\ packages[1].exc = "FieldError"
    /\ packages[1].errors = {"parcel[0].weight", "parcel[1].weight"}

TotalWeightRead == got # None /\ got[1].property = "weight"
SingleRead == got # None /\ got[1].property = "single"

\* The packages whose weight resolves, and their weights in pounds, added.
C6_Resolved == {i \in 1..Len(parcels) : ItemWeightValue(packages[1].items[i]) # None}

RECURSIVE C6_Pounds(_)
C6_Pounds(S) ==
    IF S = {} THEN 0
    ELSE LET i == CHOOSE x \in S : TRUE
         IN  ItemWeightLB(packages[1].items[i])[1] + C6_Pounds(S \ {i})

\* The original statement of C6: Packages.weight is the sum, in pounds, of
\* the weights of exactly the packages whose weight resolves, and null when
\* none resolves.
C6_WeightIsSumOfResolved ==
    TotalWeightRead =>
        got[1].LB = Ret(IF C6_Resolved = {} THEN None ELSE Some(C6_Pounds(C6_Resolved)))

\* What Packages.weight computes: the sum, in pounds, of the weights of
\* exactly the packages whose weight resolves, and null when none resolves
\* or when that sum is zero; 2.5 LB and 1 KG give 4.70 LB.
C6_WeightIsNonZeroSumOfResolved ==
    TotalWeightRead =>
        got[1].LB = Ret(IF C6_Resolved = {} \/ C6_Pounds(C6_Resolved) = 0
                        THEN None
                        ELSE Some(C6_Pounds(C6_Resolved)))

\* Parcels of 2.5 LB and 1 KG: 4.70 LB.
C6_Witness ==
    /\ TotalWeightRead /\ Len(parcels) = 2
    /\ parcels[1].weight = Some(2500) /\ parcels[1].weight_unit = "LB"
    /\ parcels[2].weight = Some(1000) /\ parcels[2].weight_unit = "KG"
    /\ got[1].LB = Ret(Some(4700))

\* The original statement of C7: .single fails with the multi-parcel error
\* if and only if more than one package is present; in every other case it
\* succeeds and returns that package.
C7_SingleFailsIffSeveral ==
    SingleRead =>
        /\ got[1].outcome.exc = "MultiParcelNotSupportedError" <=> Len(parcels) > 1
        /\ Len(parcels) <= 1 => got[1].outcome.exc = "none"
        /\ Len(parcels) = 1 => got[1].outcome.val = Some(packages[1].items[1])

\* C7, amended: .single fails with the multi-parcel error if and only if
\* more than one package is present; with exactly one package it succeeds
\* and returns that package; with none it fails with an IndexError.
C7_SingleOfOne ==
    SingleRead =>
        /\ got[1].outcome.exc = "MultiParcelNotSupportedError" <=> Len(parcels) > 1
        /\ Len(parcels) = 1 => got[1].outcome = Ret(Some(packages[1].items[1]))
        /\ Len(parcels) = 0 => got[1].outcome.exc = "IndexError"

\* .single read on two packages: the multi-parcel error.
C7_Witness ==
    /\ SingleRead /\ Len(parcels) = 2
    /\ got[1].outcome.exc = "MultiParcelNotSupportedError"

-----------------------------------------------------------------------------
(* Options (purplship/core/units.py) *)

\* Options.Code.__members__: the names of the members.
OptionsCode == {"cash_on_delivery", "currency", "insurance", "notification", "printing"}

\* A mutant of Options.has_content: the keys are looked up among the
\* members' values.
OptionsHasContentByValue(b) ==
    \E o \in DOMAIN b : o \in {"COD", "currency", "insurance", "notification", "printing"}

\* Options.has_content: any(o for o in self._payload if o in Code.__members__)
OptionsHasContent(b) == \E o \in DOMAIN b : o \in OptionsCode /\ o # ""

\* COD(**entry), Insurance(**entry), Notification(**entry)
Typed(class, entry) == [class |-> class, fields |-> entry]

\* A mutant of Options.insurance: the value is built only for a bag that
\* also names a currency.
OptionsInsuranceWithCurrency(b) ==
    IF "insurance" \in DOMAIN b /\ "currency" \in DOMAIN b
    THEN Some(Typed("Insurance", b["insurance"])) ELSE None

OptionsCashOnDelivery(b) ==
    IF "cash_on_delivery" \in DOMAIN b THEN Some(Typed("COD", b["cash_on_delivery"])) ELSE None
\* self._payload.get(key)
OptionsCurrency(b) == IF "currency" \in DOMAIN b THEN Some(b["currency"]) ELSE None
OptionsInsurance(b) ==
    IF "insurance" \in DOMAIN b THEN Some(Typed("Insurance", b["insurance"])) ELSE None
OptionsNotification(b) ==
    IF "notification" \in DOMAIN b THEN Some(Typed("Notification", b["notification"])) ELSE None
OptionsPrinting(b) == IF "printing" \in DOMAIN b THEN Some(b["printing"]) ELSE None

-----------------------------------------------------------------------------
(* Request builders, and the flow build request -> transport *)

\* Serializable(request, serializer): the wire object a builder returns.
Serializable(wire) == [exc |-> "none", wire |-> Some(wire), errors |-> {}]
\* A builder that raised: no Serializable exists.
BuilderRaised(e, errors) == [exc |-> e, wire |-> None, errors |-> errors]

\* The presets enumeration a carrier passes to Packages (providers/*/units.py).
PackagePresets == Some(CarrierPresets)

\* A mutant of dct_request: it declares no required field.
DhlRequiredNone == None

\* dct_request: Packages(payload.parcels, PackagePresets, required=["weight"])
DhlRequired == Some(<<"weight">>)

\* The members of ProductCode that dct_request names, and those of
\* SpecialServiceCode and RatingServiceCode (providers/*/units.py).
ProductCode == {"dhl_express_worldwide_doc", "dhl_express_worldwide_nondoc",
                "dhl_express_easy_doc", "dhl_express_easy_nondoc"}
SpecialServiceCode == {"dhl_paperless_trade", "dhl_saturday_delivery"}
RatingServiceCode == {"ups_freight_ltl", "ups_freight_ltl_guaranteed"}

\* [k for k in options.keys() if k in members]: the bags of the model hold
\* at most one such key, so the order of the dict does not show.
RECURSIVE KeysIn(_, _)
KeysIn(b, members) ==
    IF DOMAIN b \cap members = {} THEN <<>>
    ELSE LET k == CHOOSE x \in DOMAIN b \cap members : TRUE
         IN  <<k>> \o KeysIn([y \in DOMAIN b \ {k} |-> b[y]], members)

\* all([parcel.is_document for parcel in payload.parcels])
IsDocument(pld) == \A i \in 1..Len(pld.parcels) : pld.parcels[i].is_document = Some(TRUE)
IsInternational(pld) == pld.shipper.country_code # pld.recipient.country_code

\* dct_request: the products requested
DhlProducts(pld) ==
    LET products == SelectSeq(pld.services, LAMBDA svc : svc \in ProductCode)
    IN  IF Len(products) # 0 THEN products
        ELSE IF IsInternational(pld)
        THEN <<IF IsDocument(pld) THEN "dhl_express_worldwide_doc"
                                  ELSE "dhl_express_worldwide_nondoc">>
        ELSE <<IF IsDocument(pld) THEN "dhl_express_easy_doc" ELSE "dhl_express_easy_nondoc">>

\* A mutant of dct_request: paperless trade is added to every international
\* shipment, documents included.
DhlSpecialServicesAllInternational(pld) ==
    KeysIn(pld.options, SpecialServiceCode)
        \o (IF IsInternational(pld) THEN <<"dhl_paperless_trade">> ELSE <<>>)

\* dct_request: the special services requested
DhlSpecialServices(pld) ==
    KeysIn(pld.options, SpecialServiceCode)
        \o (IF IsInternational(pld) /\ ~IsDocument(pld)
            THEN <<"dhl_paperless_trade">> ELSE <<>>)

\* time.strftime(format): the local time of the call, to the minute for
\* "PT%HH%MM", to the day for "%Y-%m-%d".
strftime(format, now) ==
    IF format = "PT%HH%MM" THEN [H |-> now.H, M |-> now.M] ELSE [day |-> now.day]

\* The moments a builder may be called at, in the order of time: two minutes
\* of a day, and the first of them a day later.
Moments ==
    {[day |-> 1, H |-> 10, M |-> 0], [day |-> 1, H |-> 10, M |-> 1],
     [day |-> 2, H |-> 10, M |-> 0]}
Later(a, b) ==
    \/ a.day < b.day
    \/ a.day = b.day /\ (a.H < b.H \/ (a.H = b.H /\ a.M < b.M))

\* dct_request: the validated packages, then the wire object: the countries,
\* the time and the day of the call, IsDutiable, one Piece per package with its weight in LB, the shipment
\* weight, the insured value, one QtdShp per product with the special
\* services, and the Dutiable block.  (Products and special services are
\* written by their member names.)
dct_request(pld, now) ==
    LET pkgs == PackagesInit(pld.parcels, PackagePresets, DhlRequired)
        total == PackagesWeight(pkgs.items)
        is_dutiable == ~IsDocument(pld)
        products == DhlProducts(pld)
        special_services == DhlSpecialServices(pld)
        insurance == OptionsInsurance(pld.options)
    IN  IF pkgs.exc # "none" THEN BuilderRaised(pkgs.exc, pkgs.errors)
        ELSE Serializable(
                [From |-> pld.shipper.country_code,
                 To |-> pld.recipient.country_code,
                 ReadyTime |-> strftime("PT%HH%MM", now),
                 Date |-> strftime("%Y-%m-%d", now),
                 IsDutiable |-> IF is_dutiable THEN "Y" ELSE "N",
                 Piece |-> [i \in 1..Len(pkgs.items) |->
                               [PieceID |-> i, Weight |-> ItemWeightLB(pkgs.items[i])]],
                 NumberOfPieces |-> Len(pkgs.items),
                 ShipmentWeight |-> WeightLB(total.value, total.unit).val,
                 InsuredCurrency |->
                     IF insurance # None THEN OptionsCurrency(pld.options) ELSE None,
                 InsuredValue |->
                     IF insurance # None THEN Some(insurance[1].fields.amount) ELSE None,
                 QtdShp |-> [i \in 1..Len(products) |->
                                [GlobalProductCode |-> products[i],
                                 LocalProductCode |-> products[i],
                                 QtdShpExChrg |-> special_services]],
                 Dutiable |->
                     IF IsInternational(pld) /\ is_dutiable
                     THEN Some([DeclaredValue |->
                                    IF "value" \in DOMAIN pld.options
                                    THEN pld.options["value"] ELSE [amount |-> 1000],
                                DeclaredCurrency |-> OptionsCurrency(pld.options)])
                     ELSE None])

\* A mutant of freight_rate_request: the last known preferred service wins.
UpsServiceLast(pld) ==
    LET known == <<"ups_freight_ltl_guaranteed">>
                     \o SelectSeq(pld.services, LAMBDA svc : svc \in RatingServiceCode)
    IN  known[Len(known)]

\* freight_rate_request: the service requested
UpsService(pld) ==
    (SelectSeq(pld.services, LAMBDA svc : svc \in RatingServiceCode)
         \o <<"ups_freight_ltl_guaranteed">>)[1]

\* freight_rate_request: Packages(payload.parcels, PackagePresets), no
\* required field; the service; one Commodity per package with
\* package.weight.value.
\* UPSWeightUnit[package.weight_unit] looks a WeightUnit member up in an
\* enumeration that is not among the sources: unitKnown says whether it
\* finds it (else KeyError).
freight_rate_request(pld, unitKnown) ==
    LET pkgs == PackagesInit(pld.parcels, PackagePresets, None)
    IN  IF pkgs.exc # "none" THEN BuilderRaised(pkgs.exc, pkgs.errors)
        ELSE IF Len(pkgs.items) > 0 /\ ~unitKnown THEN BuilderRaised("KeyError", {})
        ELSE Serializable(
                [Service |-> UpsService(pld),
                 Commodity |-> [i \in 1..Len(pkgs.items) |->
                                   [Weight |-> ItemWeightValue(pkgs.items[i])]]])

Carriers == {"dhl", "ups"}

FlowParcels ==
    [weight : {None, Some(1000), Some(2500)},
     width : {None}, height : {None}, length : {None},
     weight_unit : WeightUnit, dimension_unit : {NoUnit},
     packaging_type : {"None"}, package_preset : {"None"},
     is_document : {None}]

\* A shipment from Canada to the United States, no service preferred, no option.
FlowPayloads ==
    [parcels : UNION {[1..n -> FlowParcels] : n \in 1..MaxParcels},
     shipper : {[country_code |-> "CA"]},
     recipient : {[country_code |-> "US"]},
     services : {<<>>},
     options : {[k \in {} |-> [text |-> "true"]]}]

InitFlow ==
    /\ IdleUnits /\ IdlePackage /\ IdlePackages /\ IdleParse /\ IdleSolid /\ IdleAdapter /\ IdleOptions /\ IdlePure /\ IdleSoap /\ IdleText
    /\ payload \in FlowPayloads
    /\ stage = [c \in Carriers |-> "pending"]
    /\ request = [c \in Carriers |-> None]
    /\ invoked = {}

Built(c, outcome) ==
    /\ request' = [request EXCEPT ![c] = Some(outcome)]
    /\ stage' = [stage EXCEPT ![c] = IF outcome.exc = "none" THEN "built" ELSE "failed"]
    /\ UNCHANGED <<payload, invoked, unitVars, packageVars, packagesVars, parseVars, solidVars, adapterVars, optionsVars, pureVars, soapVars, textVars>>

\* Mapper.create_rate_request of the DHL adapter
BuildDhl ==
    /\ stage["dhl"] = "pending"
    /\ \E now \in Moments : Built("dhl", dct_request(payload, now))

\* Mapper.create_rate_request of the UPS freight adapter
BuildUps ==
    /\ stage["ups"] = "pending"
    /\ \E unitKnown \in BOOLEAN : Built("ups", freight_rate_request(payload, unitKnown))

\* Proxy.get_rates(request): the caller hands it the Serializable the
\* carrier's builder returned.
GetRates(c) ==
    /\ stage[c] = "built"
    /\ stage' = [stage EXCEPT ![c] = "sent"]
    /\ invoked' = invoked \cup {c}
    /\ UNCHANGED <<payload, request, unitVars, packageVars, packagesVars, parseVars, solidVars, adapterVars, optionsVars, pureVars, soapVars, textVars>>

NextFlow == BuildDhl \/ BuildUps \/ \E c \in Carriers : GetRates(c)

SpecFlow == InitFlow /\ [][NextFlow]_vars

-----------------------------------------------------------------------------
(* Claims about the flow *)

\* Some parcel of the payload gives no weight (and names no preset giving one).
C2_MissesWeight == \E i \in 1..Len(payload.parcels) : payload.parcels[i].weight = None

\* While a parcel of the payload lacks its weight, DHL's builder has not
\* returned a Serializable and DHL's transport has not been invoked; whatever
\* was sent was sent with the Serializable its builder returned.
C2_Rejected ==
    /\ C2_MissesWeight =>
          /\ stage["dhl"] \in {"pending", "failed"}
          /\ "dhl" \notin invoked
          /\ request["dhl"] # None =>
                /\ request["dhl"][1].exc = "FieldError"
                /\ request["dhl"][1].wire = None
    /\ \A c \in Carriers :
          c \in invoked => request[c] # None /\ request[c][1].wire # None

\* A step of one carrier leaves the other carriers where they were, and a
\* failed builder does not keep another carrier's pending request from being
\* built nor its built request from being sent.
C2_Independent ==
    \A c \in Carriers :
        stage'[c] # stage[c] =>
            /\ \A d \in Carriers \ {c} :
                  stage'[d] = stage[d] /\ request'[d] = request[d]
            /\ stage[c] = "pending" => stage'[c] \in {"built", "failed"}
            /\ stage[c] = "built" => stage'[c] = "sent" /\ invoked' = invoked \cup {c}

\* C2: a payload whose parcels miss a field the carrier's builder requires
\* (DHL requires the weight; UPS freight declares no required field) makes
\* that builder fail with a field validation error and return no Serializable,
\* and the carrier's transport operation is never invoked for it; the failure
\* of one carrier's builder leaves the other carriers' requests free to be
\* built and sent.
C2_RejectedBeforeTransport == [](C2_Rejected) /\ [][C2_Independent]_vars

\* DHL has rejected a payload with a parcel lacking its weight, naming the
\* parcel, and the same payload has been sent to UPS.
C2_Witness ==
    /\ Len(payload.parcels) = 2
    /\ payload.parcels[1].weight # None /\ payload.parcels[2].weight = None
    /\ stage["dhl"] = "failed"
    /\ request["dhl"][1].errors = {"parcel[1].weight"}
    /\ invoked = {"ups"}

-----------------------------------------------------------------------------
(* Rate requests of every shape: services, options, countries, documents *)

\* Parcels with a weight, documents or not (is_document may be left out).
ShapedParcels ==
    [weight : {Some(1000)},
     width : {None}, height : {None}, length : {None},
     weight_unit : {"LB"}, dimension_unit : {NoUnit},
     packaging_type : {"None"}, package_preset : {"None"},
     is_document : {None, Some(FALSE), Some(TRUE)}]

\* The preferred services of a caller: none, unknown ones, the carriers' own.
PreferredServices ==
    {<<>>,
     <<"unknown_service">>,
     <<"dhl_express_easy_doc">>,
     <<"unknown_service", "dhl_express_worldwide_nondoc", "dhl_express_easy_doc">>,
     <<"ups_freight_ltl">>,
     <<"ups_freight_ltl", "ups_freight_ltl_guaranteed">>,
     <<"ups_freight_ltl_guaranteed", "ups_freight_ltl">>,
     <<"dhl_express_easy_nondoc", "unknown_service", "ups_freight_ltl">>}

\* The options of a caller: none, a special service, an insured value with
\* its currency, a declared value.
NoOptions == [k \in {} |-> [text |-> "true"]]
RequestOptions ==
    {NoOptions,
     [dhl_paperless_trade |-> [text |-> "true"]],
     [dhl_saturday_delivery |-> [text |-> "true"]],
     [insurance |-> [amount |-> 100000], currency |-> [text |-> "USD"]],
     [value |-> [amount |-> 50000], currency |-> [text |-> "CAD"]]}

ShapedPayloads ==
    [parcels : UNION {[1..n -> ShapedParcels] : n \in 1..MaxParcels},
     shipper : {[country_code |-> "CA"]},
     recipient : {[country_code |-> "CA"], [country_code |-> "US"]},
     services : PreferredServices,
     options : RequestOptions]

InitRequest ==
    /\ IdleUnits /\ IdlePackage /\ IdlePackages /\ IdleParse /\ IdleSolid /\ IdleAdapter /\ IdleOptions /\ IdlePure /\ IdleSoap /\ IdleText
    /\ payload \in ShapedPayloads
    /\ stage = [c \in Carriers |-> "pending"]
    /\ request = [c \in Carriers |-> None]
    /\ invoked = {}

SpecRequest == InitRequest /\ [][NextFlow]_vars

-----------------------------------------------------------------------------
(* Claims about the services and the duty structures of a rate request *)

\* The wire object a carrier's builder returned
WireOf(c) == request[c][1].wire[1]
HasWire(c) == request[c] # None /\ request[c][1].exc = "none"

\* The caller's preferred services a carrier knows, in the caller's order
KnownPreferred(c) ==
    SelectSeq(payload.services,
              LAMBDA svc : svc \in (IF c = "dhl" THEN ProductCode ELSE RatingServiceCode))

\* The services a request asks for
RequestedSeq(c) ==
    IF c = "dhl" THEN [i \in 1..Len(WireOf(c).QtdShp) |-> WireOf(c).QtdShp[i].GlobalProductCode]
    ELSE <<WireOf(c).Service>>
SeqRange(q) == {q[i] : i \in 1..Len(q)}

\* The default of a carrier for the shape of the shipment
C19_Default(c) ==
    IF c = "ups" THEN "ups_freight_ltl_guaranteed"
    ELSE IF IsInternational(payload) /\ IsDocument(payload) THEN "dhl_express_worldwide_doc"
    ELSE IF IsInternational(payload) THEN "dhl_express_worldwide_nondoc"
    ELSE IF IsDocument(payload) THEN "dhl_express_easy_doc"
    ELSE "dhl_express_easy_nondoc"

C19_FallsBack(c) == KnownPreferred(c) = <<>> => RequestedSeq(c) = <<C19_Default(c)>>

\* C19 as stated: a rate request builder requests the caller's preferred
\* services that are known to the carrier, and only when none is known the
\* carrier default: by shipment shape for DHL, ups_freight_ltl_guaranteed
\* for UPS freight.
C19_RequestsKnownPreferred ==
    \A c \in Carriers :
        HasWire(c) =>
            /\ KnownPreferred(c) # <<>> =>
                   SeqRange(RequestedSeq(c)) = SeqRange(KnownPreferred(c))
            /\ C19_FallsBack(c)

\* C19, amended: the DHL builder requests every preferred service DHL knows,
\* in the caller's order; the UPS freight builder requests the first
\* preferred service UPS knows and no other; only when none is known does
\* either fall back to the carrier default: by shipment shape for DHL,
\* ups_freight_ltl_guaranteed for UPS freight.
C19_ServiceSelection ==
    \A c \in Carriers :
        HasWire(c) =>
            /\ KnownPreferred(c) # <<>> =>
                   RequestedSeq(c) = IF c = "dhl" THEN KnownPreferred(c)
                                     ELSE <<KnownPreferred(c)[1]>>
            /\ C19_FallsBack(c)

\* Both builders have answered a caller who prefers two services UPS knows,
\* the guaranteed one second: UPS is asked for the first alone, and DHL,
\* knowing neither, for its default for a domestic document.
C19_Witness ==
    /\ payload.services = <<"ups_freight_ltl", "ups_freight_ltl_guaranteed">>
    /\ ~IsInternational(payload) /\ IsDocument(payload)
    /\ HasWire("ups") /\ WireOf("ups").Service = "ups_freight_ltl"
    /\ HasWire("dhl") /\ RequestedSeq("dhl") = <<"dhl_express_easy_doc">>

\* How often a special service is asked for with every product
Occurrences(q, x) == Cardinality({i \in 1..Len(q) : q[i] = x})
C20_CrossBorderDutiable ==
    /\ payload.shipper.country_code # payload.recipient.country_code
    /\ \E i \in 1..Len(payload.parcels) : payload.parcels[i].is_document # Some(TRUE)

\* C20: in the DHL rate request the Dutiable block is present, and the
\* paperless-trade special service is added to those the caller asked for,
\* if and only if the shipper and recipient countries differ and not all
\* parcels are documents; IsDutiable is "Y" if and only if not all parcels
\* are documents.
C20_DutyStructures ==
    HasWire("dhl") =>
        LET wire == WireOf("dhl")
            asked == IF "dhl_paperless_trade" \in DOMAIN payload.options THEN 1 ELSE 0
        IN  /\ (wire.Dutiable # None) <=> C20_CrossBorderDutiable
            /\ \A i \in 1..Len(wire.QtdShp) :
                   Occurrences(wire.QtdShp[i].QtdShpExChrg, "dhl_paperless_trade")
                       = asked + (IF C20_CrossBorderDutiable THEN 1 ELSE 0)
            /\ (wire.IsDutiable = "Y") <=>
                   (\E i \in 1..Len(payload.parcels) :
                        payload.parcels[i].is_document # Some(TRUE))
            /\ wire.IsDutiable \in {"Y", "N"}

\* DHL has built the request of a shipment from Canada to the United States
\* with a document and a parcel that is none: Dutiable block, paperless
\* trade, IsDutiable "Y".
C20_Witness ==
    /\ HasWire("dhl")
    /\ Len(payload.parcels) = 2
    /\ payload.parcels[1].is_document = Some(TRUE)
    /\ payload.parcels[2].is_document = Some(FALSE)
    /\ payload.recipient.country_code = "US"
    /\ payload.options = NoOptions
    /\ WireOf("dhl").Dutiable = Some([DeclaredValue |-> [amount |-> 1000], DeclaredCurrency |-> None])
    /\ WireOf("dhl").QtdShp[1].QtdShpExChrg = <<"dhl_paperless_trade">>
    /\ WireOf("dhl").IsDutiable = "Y"

-----------------------------------------------------------------------------
(* Builders called again and again: dct_request, modify_pickup_request *)

\* sum([...]) of modify_pickup_request: 0 + w1 + w2 + ...; adding None to a
\* number raises TypeError.
RECURSIVE SumOf(_, _)
SumOf(ws, n) ==
    IF n = 0 THEN Ret(0)
    ELSE LET rest == SumOf(ws, n - 1)
         IN  IF rest.exc # "none" THEN rest
             ELSE IF ws[n] = None THEN Raised("TypeError")
             ELSE Ret(rest.val + ws[n][1])

\* modify_pickup_request: [Weight(parcel.weight, WeightUnit[weight_unit.name]).LB
\* for parcel in payload.parcels], weight_unit being DHLWeightUnit.LB
ModifyPickupWeights(pld) ==
    [i \in 1..Len(pld.parcels) |-> WeightLB(pld.parcels[i].weight, "LB").val]

\* modify_pickup_request, as far as the parcels decide it: the number of
\* pieces and the weight segment of the Pickup.
modify_pickup_request(pld) ==
    LET weight == SumOf(ModifyPickupWeights(pld), Len(pld.parcels))
    IN  IF weight.exc # "none" THEN BuilderRaised(weight.exc, {})
        ELSE Serializable([Pieces |-> Len(pld.parcels),
                           Weight |-> weight.val,
                           WeightUnit |-> "LB"])

\* Parcels with or without a weight, declared in either unit
OrderParcels ==
    [weight : {None, Some(1000), Some(2500)},
     width : {None}, height : {None}, length : {None},
     weight_unit : WeightUnit, dimension_unit : {NoUnit},
     packaging_type : {"None"}, package_preset : {"None"},
     is_document : {None}]

Orders ==
    [parcels : UNION {[1..n -> OrderParcels] : n \in 1..MaxParcels},
     shipper : {[country_code |-> "CA"]},
     recipient : {[country_code |-> "US"]},
     services : {<<>>},
     options : {[k \in {} |-> [text |-> "true"]]}]

\* No more than MaxCalls calls of the builders are followed.
MaxCalls == 2

InitPure ==
    /\ IdleUnits /\ IdlePackage /\ IdlePackages /\ IdleFlow /\ IdleParse /\ IdleSolid /\ IdleAdapter /\ IdleOptions /\ IdleSoap /\ IdleText
    /\ order \in Orders
    /\ clock \in {m \in Moments : \A n \in Moments : ~Later(n, m)}
    /\ built = <<>>

\* Time passes.
Tick ==
    /\ \E m \in Moments : Later(clock, m) /\ clock' = m
    /\ UNCHANGED <<order, built, unitVars, packageVars, packagesVars, flowVars, parseVars, solidVars, adapterVars, optionsVars, soapVars, textVars>>

Called(builder, outcome) ==
    /\ Len(built) < MaxCalls
    /\ built' = Append(built, [builder |-> builder, at |-> clock, outcome |-> outcome])
    /\ UNCHANGED <<order, clock, unitVars, packageVars, packagesVars, flowVars, parseVars, solidVars, adapterVars, optionsVars, soapVars, textVars>>

\* dct_request(payload, settings), called now
CallDct == Called("dct_request", dct_request(order, clock))

\* modify_pickup_request(payload, settings), called now
CallModifyPickup == Called("modify_pickup_request", modify_pickup_request(order))

NextPure == Tick \/ CallDct \/ CallModifyPickup

SpecPure == InitPure /\ [][NextPure]_vars

-----------------------------------------------------------------------------
(* Claims about the builders called again and again *)

\* C21: two invocations of a request builder with equal payload and equal
\* settings, at any two moments, produce equal carrier wire objects.
C21_EqualWires ==
    built # Idle =>
        \A i, j \in 1..Len(built) :
            built[i].builder = built[j].builder => built[i].outcome = built[j].outcome

\* dct_request has been called twice with the same payload, a minute apart,
\* has returned a wire object each time, and the two differ.
C21_Witness ==
    /\ built # Idle /\ Len(built) = 2
    /\ built[1].builder = "dct_request" /\ built[2].builder = "dct_request"
    /\ built[1].at.day = built[2].at.day
    /\ built[1].outcome.exc = "none" /\ built[2].outcome.exc = "none"
    /\ built[1].outcome # built[2].outcome

\* The declared weight of a parcel, converted from its declared unit into
\* pounds, and the sum of these weights over the parcels of the order
C27_Pounds(p) == WeightLB(p.weight, p.weight_unit).val
C27_TotalPounds ==
    SumOf([i \in 1..Len(order.parcels) |-> C27_Pounds(order.parcels[i])],
          Len(order.parcels)).val

\* C27: every weight a DHL request builder writes into the wire object with
\* unit LB is the payload weight converted from the parcel's declared weight
\* unit into pounds: the per-piece and shipment weights of dct_request, and
\* the total weight of modify_pickup_request, the sum over all parcels of
\* each parcel's weight in pounds.
C27_WeightsInPounds ==
    built # Idle =>
        \A i \in 1..Len(built) :
            built[i].outcome.exc = "none" =>
                LET wire == built[i].outcome.wire[1]
                IN  IF built[i].builder = "dct_request"
                    THEN /\ \A k \in 1..Len(order.parcels) :
                                wire.Piece[k].Weight = C27_Pounds(order.parcels[k])
                         /\ wire.ShipmentWeight = Some(C27_TotalPounds)
                    ELSE /\ wire.WeightUnit = "LB"
                         /\ wire.Weight = C27_TotalPounds

\* modify_pickup_request has built the request of one parcel of 1 KG: the
\* weight segment says 1.0 LB.
C27_Witness ==
    /\ built # Idle /\ Len(built) = 1
    /\ Len(order.parcels) = 1
    /\ order.parcels[1].weight = Some(1000) /\ order.parcels[1].weight_unit = "KG"
    /\ built[1].builder = "modify_pickup_request"
    /\ built[1].outcome.exc = "none"
    /\ built[1].outcome.wire[1].Weight = 1000
    /\ C27_TotalPounds = 2200

-----------------------------------------------------------------------------
(* Response trees and response parsers *)

\* An Element: its tag, the content of its own fields, its child elements.
Node(tag, data, kids) == [tag |-> tag, data |-> data, kids |-> kids]

\* response.xpath(".//*[local-name() = $name]", name=...): the descendants of
\* the node (never the node itself) carrying the name, in document order.
RECURSIVE Descendants(_), Below(_, _)
Below(kids, i) ==
    IF i > Len(kids) THEN <<>>
    ELSE <<kids[i]>> \o Descendants(kids[i]) \o Below(kids, i + 1)
Descendants(node) == Below(node.kids, 1)
xpath(node, name) == SelectSeq(Descendants(node), LAMBDA n : n.tag = name)

Settings == [carrier |-> "carrier", carrier_name |-> "carrier_name", carrier_id |-> "carrier_id"]

Message(code, message) ==
    [carrier_name |-> Settings.carrier_name, carrier_id |-> Settings.carrier_id,
     code |-> code, message |-> message]

\* parse_error_response of the DHL, UPS and Canada Post adapters: one Message
\* per error node found in the response tree.
parse_error_response(resp) ==
    LET nodes == xpath(resp, "Error")
    IN  [i \in 1..Len(nodes) |-> Message(nodes[i].data.code, nodes[i].data.message)]

\* What a parser hands back: a (result, messages) pair, or an exception.
Pair(result, messages) == [exc |-> "none", result |-> result, messages |-> messages]
ParserRaised(e) == [exc |-> e, result |-> None, messages |-> <<>>]

\* decimal() of an amount given in thousandths.
Amount(v) == IF v = None THEN None ELSE decimal(Some(Exact(v[1])))[1]

\* A mutant of _extract_quote: no name counts as duties and taxes.
TaxNamesNone == {}

\* "Discount" in name / "TAXES PAID" in name, over the names of the model.
DiscountNames == {"Weekly Discount"}
TaxNames == {"DUTIES & TAXES PAID"}

RECURSIVE SumWhere(_, _, _)
SumWhere(lines, names, i) ==
    IF i > Len(lines) THEN 0
    ELSE (IF lines[i].name \in names THEN lines[i].amount ELSE 0)
         + SumWhere(lines, names, i + 1)

\* _extract_quote (DHL): None for a quote without shipping charge; TypeError
\* from `"Discount" in ec.name` on a charge line without name; IndexError from
\* DeliveryDate[0] on a quote without delivery date.  (transit_days and the
\* Product table's service name are left out of the record.)
extract_quote(q) ==
    LET ExtraCharges == [i \in 1..Len(q.QtdShpExChrg) |->
            [name |-> q.QtdShpExChrg[i].LocalServiceTypeName,
             amount |-> Amount(Or(q.QtdShpExChrg[i].ChargeValue, Some(0)))]]
        names == {ExtraCharges[i].name : i \in 1..Len(ExtraCharges)}
    IN  IF q.ShippingCharge = None \/ q.ShippingCharge[1] = 0 THEN Ret(None)
        ELSE IF "None" \in names THEN Raised("TypeError")
        ELSE IF q.DeliveryDate = <<>> THEN Raised("IndexError")
        ELSE Ret(Some(
            [carrier_name |-> Settings.carrier_name,
             carrier_id |-> Settings.carrier_id,
             currency |-> q.CurrencyCode,
             service |-> q.LocalProductName,
             base_charge |-> Amount(q.WeightCharge),
             total_charge |-> Amount(q.ShippingCharge),
             duties_and_taxes |->
                 Amount(Some(SumWhere(ExtraCharges, TaxNames, 1))),
             discount |->
                 Amount(Some(SumWhere(ExtraCharges, DiscountNames, 1))),
             extra_charges |-> [i \in 1..Len(q.QtdShpExChrg) |->
                 [name |-> q.QtdShpExChrg[i].LocalServiceTypeName,
                  amount |-> Amount(q.QtdShpExChrg[i].ChargeValue),
                  currency |-> q.CurrencyCode]]]))

\* The results of a list comprehension over the nodes: the values in order,
\* or the first exception raised.
RECURSIVE Collect(_, _)
Collect(outcomes, i) ==
    IF i > Len(outcomes) THEN Ret(<<>>)
    ELSE IF outcomes[i].exc # "none" THEN Raised(outcomes[i].exc)
    ELSE LET rest == Collect(outcomes, i + 1)
         IN  IF rest.exc # "none" THEN rest
             ELSE Ret(<<outcomes[i].val>> \o rest.val)

RECURSIVE Unwrap(_, _)
Unwrap(options, i) ==
    IF i > Len(options) THEN <<>>
    ELSE options[i] \o Unwrap(options, i + 1)

\* A mutant of parse_dct_response: the messages are returned only when no
\* quote is.
parse_dct_response_either(resp) ==
    LET qtdshp_list == xpath(resp, "QtdShp")
        quotes == Collect([i \in 1..Len(qtdshp_list) |->
                              extract_quote(qtdshp_list[i].data)], 1)
    IN  IF quotes.exc # "none" THEN ParserRaised(quotes.exc)
        ELSE IF Unwrap(quotes.val, 1) # <<>> THEN Pair(Unwrap(quotes.val, 1), <<>>)
        ELSE Pair(<<>>, parse_error_response(resp))

\* parse_dct_response
parse_dct_response(resp) ==
    LET qtdshp_list == xpath(resp, "QtdShp")
        quotes == Collect([i \in 1..Len(qtdshp_list) |->
                              extract_quote(qtdshp_list[i].data)], 1)
    IN  IF quotes.exc # "none" THEN ParserRaised(quotes.exc)
        ELSE Pair(Unwrap(quotes.val, 1), parse_error_response(resp))

SurchargeExcluded == {"DSCNT", "AFTR_DSCNT", "DSCNT_RATE", "LND_GROSS"}

ChargeLines(rates, codes, currency) ==
    LET kept == SelectSeq(rates, LAMBDA r : r.Code \in codes)
    IN  [i \in 1..Len(kept) |->
            [name |-> kept[i].Code, currency |-> currency, amount |-> Amount(kept[i].Value)]]

RECURSIVE SumAmounts(_, _)
SumAmounts(lines, i) ==
    IF i > Len(lines) THEN 0 ELSE lines[i].amount + SumAmounts(lines, i + 1)

\* _extract_freight_rate (UPS): IndexError from [...][0] when no rate line
\* has the code AFTR_DSCNT; StopIteration from next() when the node holds no
\* CurrencyCode.
extract_freight_rate(d) ==
    LET total == SelectSeq(d.Rate, LAMBDA r : r.Code = "AFTR_DSCNT")
        codes == {d.Rate[i].Code : i \in 1..Len(d.Rate)}
        Discounts_ == ChargeLines(d.Rate, {"DSCNT"}, d.UnitOfMeasurement)
        Surcharges_ == ChargeLines(d.Rate, codes \ SurchargeExcluded, d.UnitOfMeasurement)
    IN  IF total = <<>> THEN Raised("IndexError")
        ELSE IF d.CurrencyCode = None THEN Raised("StopIteration")
        ELSE Ret(
            [carrier_name |-> Settings.carrier_name,
             carrier_id |-> Settings.carrier_id,
             currency |-> d.CurrencyCode[1],
             service |-> d.Service,
             base_charge |-> Amount(d.TotalShipmentCharge),
             total_charge |-> Amount(Or(total[1].Value, Some(0))),
             duties_and_taxes |-> Amount(Some(SumAmounts(Surcharges_, 1))),
             discount |-> Amount(Some(SumAmounts(Discounts_, 1))),
             extra_charges |-> Discounts_ \o Surcharges_])

\* parse_freight_rate_response
parse_freight_rate_response(resp) ==
    LET rate_reply == xpath(resp, "FreightRateResponse")
        rates == Collect([i \in 1..Len(rate_reply) |->
                             extract_freight_rate(rate_reply[i].data)], 1)
    IN  IF rates.exc # "none" THEN ParserRaised(rates.exc)
        ELSE Pair(rates.val, parse_error_response(resp))

\* A mutant of parse_cancel_pickup_response: the cancellation is confirmed
\* whatever the carrier reports.
parse_cancel_pickup_response_confirming(resp) ==
    Pair(Some([carrier |-> Settings.carrier,
               carrier_name |-> Settings.carrier_name,
               success |-> TRUE]),
         parse_error_response(resp))

\* parse_cancel_pickup_response (Canada Post)
parse_cancel_pickup_response(resp) ==
    LET errors == parse_error_response(resp)
        cancellation ==
            IF Len(errors) = 0
            THEN Some([carrier |-> Settings.carrier,
                       carrier_name |-> Settings.carrier_name,
                       success |-> TRUE])
            ELSE None
    IN  Pair(cancellation, errors)

\* The largest number of children of the response's root
MaxKids == 2

Parsers == {"parse_dct_response", "parse_freight_rate_response",
            "parse_cancel_pickup_response"}

FuelLine == [LocalServiceTypeName |-> "FUEL SURCHARGE", ChargeValue |-> Some(3500)]
UnnamedLine == [LocalServiceTypeName |-> "None", ChargeValue |-> Some(3500)]
DiscountLine == [LocalServiceTypeName |-> "Weekly Discount", ChargeValue |-> Some(1250)]
TaxLine == [LocalServiceTypeName |-> "DUTIES & TAXES PAID", ChargeValue |-> Some(4000)]

\* QtdShp elements
QtdShpNodes ==
    {Node("QtdShp", data, <<>>) : data \in
        [ShippingCharge : {None, Some(0), Some(25000)},
         WeightCharge : {Some(20000)},
         DeliveryDate : {<<>>, <<"2020-08-10 23:59:00">>},
         QtdShpExChrg : {<<>>, <<UnnamedLine>>, <<FuelLine, DiscountLine, TaxLine>>},
         CurrencyCode : {"USD"},
         LocalProductName : {"EXPRESS WORLDWIDE"}]}

\* FreightRateResponse elements
FreightRateNodes ==
    {Node("FreightRateResponse", data, <<>>) : data \in
        [Rate : {<<[Code |-> "DSCNT", Value |-> Some(7000)]>>,
                 <<[Code |-> "AFTR_DSCNT", Value |-> Some(0)]>>,
                 <<[Code |-> "DSCNT", Value |-> Some(7000)],
                   [Code |-> "2", Value |-> Some(6000)],
                   [Code |-> "LND_GROSS", Value |-> Some(77000)],
                   [Code |-> "AFTR_DSCNT", Value |-> Some(76000)]>>},
         UnitOfMeasurement : {"USD"},
         CurrencyCode : {None, Some("USD")},
         Service : {"UPS Freight LTL"},
         TotalShipmentCharge : {Some(76000)}]}

\* Error elements, as each carrier's parse_error_response reads them
ErrorNodes == {Node("Error", [code |-> "111", message |-> "Invalid postal code"], <<>>)}

\* Elements no parser looks for
OtherNodes == {Node("Note", None, <<>>)}

ResultNodes(p) ==
    CASE p = "parse_dct_response" -> QtdShpNodes
      [] p = "parse_freight_rate_response" -> FreightRateNodes
      [] OTHER -> {}

\* The children of the root: an element, or an element wrapped in another.
Inner(p) ==
    LET leaves == ResultNodes(p) \cup ErrorNodes \cup OtherNodes
    IN  leaves \cup {Node("Wrapper", None, <<l>>) : l \in leaves}

ResponseTrees(p) ==
    {Node("Response", None, kids) :
        kids \in UNION {[1..n -> Inner(p)] : n \in 0..MaxKids}}

InitParse ==
    /\ IdleUnits /\ IdlePackage /\ IdlePackages /\ IdleFlow /\ IdleSolid /\ IdleAdapter /\ IdleOptions /\ IdlePure /\ IdleSoap /\ IdleText
    /\ parser \in Parsers
    /\ response \in ResponseTrees(parser)
    /\ parsed = None

Parse(p, outcome) ==
    /\ parser = p /\ parsed = None
    /\ parsed' = Some(outcome)
    /\ UNCHANGED <<parser, response, unitVars, packageVars, packagesVars, flowVars, solidVars, adapterVars, optionsVars, pureVars, soapVars, textVars>>

ParseDct == Parse("parse_dct_response", parse_dct_response(response))
ParseFreight == Parse("parse_freight_rate_response", parse_freight_rate_response(response))
ParseCancelPickup == Parse("parse_cancel_pickup_response", parse_cancel_pickup_response(response))

NextParse == ParseDct \/ ParseFreight \/ ParseCancelPickup

SpecParse == InitParse /\ [][NextParse]_vars

-----------------------------------------------------------------------------
(* Claims about the response parsers *)

Parsed(p) == parser = p /\ parsed # None

\* A QtdShp with a shipping charge, a delivery date and named charge lines; a
\* FreightRateResponse with its total line and its currency.
C3_ValidResult(n) ==
    \/ /\ n.tag = "QtdShp"
       /\ Truthy(n.data.ShippingCharge)
       /\ n.data.DeliveryDate # <<>>
       /\ \A i \in 1..Len(n.data.QtdShpExChrg) :
             n.data.QtdShpExChrg[i].LocalServiceTypeName # "None"
    \/ /\ n.tag = "FreightRateResponse"
       /\ n.data.CurrencyCode # None
       /\ \E i \in 1..Len(n.data.Rate) : n.data.Rate[i].Code = "AFTR_DSCNT"

\* The response holds one result node, a valid one, and one error node.
C3_OneResultOneError ==
    LET results == SelectSeq(Descendants(response),
                             LAMBDA n : n.tag \in {"QtdShp", "FreightRateResponse"})
    IN  /\ Len(results) = 1 /\ C3_ValidResult(results[1])
        /\ Len(xpath(response, "Error")) = 1

\* The rate parsers return one rate and one message for a response holding
\* one valid result node and one error node.
C3_RateParsers ==
    \A p \in {"parse_dct_response", "parse_freight_rate_response"} :
        Parsed(p) /\ C3_OneResultOneError =>
            /\ parsed[1].exc = "none"
            /\ Len(parsed[1].result) = 1
            /\ Len(parsed[1].messages) = 1

\* Every parser returns one Message per error node of the response.
C3_MessagesReturned ==
    \A p \in Parsers :
        Parsed(p) /\ parsed[1].exc = "none" =>
            Len(parsed[1].messages) = Len(xpath(response, "Error"))

\* C3 (as stated): every parser returns the messages together with the
\* normalized result, never one instead of the other: the rate parsers for a
\* response of one valid result node and one error node, and the cancel-pickup
\* parser, whose result is the confirmation, also when a message is reported.
C3_ResultAndMessages ==
    /\ C3_RateParsers
    /\ C3_MessagesReturned
    /\ Parsed("parse_cancel_pickup_response") => parsed[1].result # None

\* C3, amended: the rate parsers return the messages together with the rates;
\* the cancel-pickup parser always returns the messages, and a confirmation
\* exactly when the response reports no message.
C3_ResultBesideMessages ==
    /\ C3_RateParsers
    /\ C3_MessagesReturned
    /\ Parsed("parse_cancel_pickup_response") =>
          /\ parsed[1].exc = "none"
          /\ parsed[1].result # None <=> xpath(response, "Error") = <<>>
          /\ parsed[1].result # None => parsed[1].result[1].success

\* The DHL parser has parsed a response whose quote is wrapped in another
\* element and which carries an error node beside it: one rate, one message.
C3_Witness ==
    /\ Parsed("parse_dct_response")
    /\ C3_OneResultOneError
    /\ response.kids[1].tag = "Wrapper"
    /\ response.kids[1].kids[1].tag = "QtdShp"
    /\ response.kids[2].tag = "Error"
    /\ Len(parsed[1].result) = 1
    /\ parsed[1].result[1].total_charge = 25000
    /\ parsed[1].messages = <<Message("111", "Invalid postal code")>>

-----------------------------------------------------------------------------
(* Girth and Volume (purplship/core/units.py) *)

\* An attribute read on a side: None (no Dimension given) has no attribute.
SideCM(side) ==
    IF side = None THEN Raised("AttributeError")
    ELSE DimensionCM(side[1].value, side[1].unit)
SideM(side) ==
    IF side = None THEN Raised("AttributeError")
    ELSE DimensionM(side[1].value, side[1].unit)
SideValue(side) ==
    IF side = None THEN Raised("AttributeError")
    ELSE DimensionValue(side[1].value, side[1].unit)

\* The first exception among the outcomes, in order; "none" if there is none.
FirstRaised(outcomes) ==
    IF \A i \in 1..Len(outcomes) : outcomes[i].exc = "none" THEN "none"
    ELSE outcomes[CHOOSE i \in 1..Len(outcomes) :
                      /\ outcomes[i].exc # "none"
                      /\ \A j \in 1..(i - 1) : outcomes[j].exc = "none"].exc

\* sides.sort() on three numbers, smallest first
Sorted3(a, b, c) ==
    LET lo == IF a <= b /\ a <= c THEN a ELSE IF b <= c THEN b ELSE c
        hi == IF a >= b /\ a >= c THEN a ELSE IF b >= c THEN b ELSE c
    IN  <<lo, a + b + c - lo - hi, hi>>

\* A mutant of Girth.value: the two largest sides are added.
GirthValueLargest(s) ==
    LET cm == [i \in 1..3 |-> SideCM(s[i])]
    IN  IF FirstRaised(cm) # "none" THEN Raised(FirstRaised(cm))
        ELSE IF \A i \in 1..3 : ~Truthy(cm[i].val) THEN Ret(None)
        ELSE IF \E i \in 1..3 : cm[i].val = None THEN Raised("TypeError")
        ELSE LET sorted == Sorted3(cm[1].val[1], cm[2].val[1], cm[3].val[1])
             IN  Ret(decimal(Some(Exact((sorted[2] + sorted[3]) * 2))))

\* Girth.value: None unless some side's CM is non-zero; sorting a list that
\* holds None beside numbers raises TypeError.
GirthValue(s) ==
    LET cm == [i \in 1..3 |-> SideCM(s[i])]
    IN  IF FirstRaised(cm) # "none" THEN Raised(FirstRaised(cm))
        ELSE IF \A i \in 1..3 : ~Truthy(cm[i].val) THEN Ret(None)
        ELSE IF \E i \in 1..3 : cm[i].val = None THEN Raised("TypeError")
        ELSE LET sorted == Sorted3(cm[1].val[1], cm[2].val[1], cm[3].val[1])
             IN  Ret(decimal(Some(Exact((sorted[1] + sorted[2]) * 2))))

\* The product of three numbers of two decimals (given in thousandths).
Product3(a, b, c) ==
    LET p == (a \div 10) * (b \div 10) * (c \div 10)
    IN  [q |-> p \div 1000, nz |-> p % 1000 # 0]

\* A mutant of Volume.value: null as soon as one side's value is null or zero.
VolumeValueAll(s) ==
    LET values == [i \in 1..3 |-> SideValue(s[i])]
        m == [i \in 1..3 |-> SideM(s[i])]
    IN  IF FirstRaised(values) # "none" THEN Raised(FirstRaised(values))
        ELSE IF \E i \in 1..3 : ~Truthy(values[i].val) THEN Ret(None)
        ELSE Ret(decimal(Some(Product3(m[1].val[1], m[2].val[1], m[3].val[1]))))

\* Volume.value: None unless some side's value is non-zero; multiplying by a
\* side whose M is None raises TypeError.
VolumeValue(s) ==
    LET values == [i \in 1..3 |-> SideValue(s[i])]
        m == [i \in 1..3 |-> SideM(s[i])]
    IN  IF FirstRaised(values) # "none" THEN Raised(FirstRaised(values))
        ELSE IF \A i \in 1..3 : ~Truthy(values[i].val) THEN Ret(None)
        ELSE IF FirstRaised(m) # "none" THEN Raised(FirstRaised(m))
        ELSE IF \E i \in 1..3 : m[i].val = None THEN Raised("TypeError")
        ELSE Ret(decimal(Some(Product3(m[1].val[1], m[2].val[1], m[3].val[1]))))

\* Volume.cubic_meter
VolumeCubicMeter(s) ==
    LET value == VolumeValue(s)
    IN  IF value.exc # "none" THEN value
        ELSE IF value.val = None THEN Ret(None)
        ELSE Ret(decimal(Some(Exact(value.val[1] * 250))))

\* Sides of 0, 40, 120 and 200 units, or without value.
SideValues == {None, Some(0), Some(40000), Some(120000), Some(200000)}
Sides == {None} \cup {Some(d) : d \in [value : SideValues, unit : DimensionUnit \cup {NoUnit}]}

InitSolid ==
    /\ IdleUnits /\ IdlePackage /\ IdlePackages /\ IdleFlow /\ IdleParse /\ IdleAdapter /\ IdleOptions /\ IdlePure /\ IdleSoap /\ IdleText
    /\ sides \in [1..3 -> Sides]
    /\ solid = None

ReadGirth ==
    /\ solid = None
    /\ solid' = Some([of |-> "Girth", value |-> GirthValue(sides)])
    /\ UNCHANGED <<sides, unitVars, packageVars, packagesVars, flowVars, parseVars, adapterVars, optionsVars, pureVars, soapVars, textVars>>

ReadVolume ==
    /\ solid = None
    /\ solid' = Some([of |-> "Volume", value |-> VolumeValue(sides),
                      cubic_meter |-> VolumeCubicMeter(sides)])
    /\ UNCHANGED <<sides, unitVars, packageVars, packagesVars, flowVars, parseVars, adapterVars, optionsVars, pureVars, soapVars, textVars>>

NextSolid == ReadGirth \/ ReadVolume

SpecSolid == InitSolid /\ [][NextSolid]_vars

-----------------------------------------------------------------------------
(* Claims about Girth and Volume *)

GirthRead == solid # None /\ solid[1].of = "Girth"
VolumeRead == solid # None /\ solid[1].of = "Volume"

\* Each of the three sides is a Dimension with a value and a unit.
AllSidesGiven ==
    \A i \in 1..3 : sides[i] # None /\ sides[i][1].value # None /\ sides[i][1].unit # NoUnit

\* A side in centimetres (1 IN = 2.54 CM), in thousandths.
Centimetres(side) ==
    IF side[1].unit = "CM" THEN side[1].value[1] ELSE (side[1].value[1] * 254) \div 100

\* A side in hundredths of a metre, rounded to the nearest.
CentiMetres(side) == (Centimetres(side) + 500) \div 1000

Permutations3 == {f \in [1..3 -> 1..3] : \A i, j \in 1..3 : i # j => f[i] # f[j]}

\* C12: Girth(s1, s2, s3).value is 2 x (the sum of the two smallest of the
\* three sides in CM), and the same for every permutation of the sides.
C12_GirthOfTwoSmallest ==
    GirthRead /\ AllSidesGiven =>
        LET sorted == Sorted3(Centimetres(sides[1]), Centimetres(sides[2]),
                              Centimetres(sides[3]))
        IN  /\ solid[1].value = Ret(Some(2 * (sorted[1] + sorted[2])))
            /\ \A f \in Permutations3 :
                  GirthValue([i \in 1..3 |-> sides[f[i]]]) = solid[1].value

\* Sides of 200, 40 and 120 CM: the girth is 2 x (40 + 120) = 320.
C12_Witness ==
    /\ GirthRead
    /\ sides = <<Some([value |-> Some(200000), unit |-> "CM"]),
                 Some([value |-> Some(40000), unit |-> "CM"]),
                 Some([value |-> Some(120000), unit |-> "CM"])>>
    /\ solid[1].value = Ret(Some(320000))

\* Some side is missing: no Dimension, or a Dimension without value.
C13_SomeSideNull == \E i \in 1..3 : sides[i] = None \/ sides[i][1].value = None

\* C13: Volume is null, and nothing is raised, if any one of the three sides
\* is null; otherwise it is the product of the three sides in meters, and the
\* scaled volume is that product x 250.
C13_VolumeNullOrProduct ==
    VolumeRead =>
        IF C13_SomeSideNull
        THEN solid[1].value = Ret(None) /\ solid[1].cubic_meter = Ret(None)
        ELSE AllSidesGiven =>
                /\ Returned(solid[1].value)
                /\ IsRounded2(solid[1].value.val[1],
                              Product3(10 * CentiMetres(sides[1]), 10 * CentiMetres(sides[2]),
                                       10 * CentiMetres(sides[3])))
                /\ solid[1].cubic_meter = Ret(Some(solid[1].value.val[1] * 250))

\* Sides of 120, 40 and 200 CM: 0.96 cubic meters, scaled 240.
C13_Witness ==
    /\ VolumeRead
    /\ sides = <<Some([value |-> Some(120000), unit |-> "CM"]),
                 Some([value |-> Some(40000), unit |-> "CM"]),
                 Some([value |-> Some(200000), unit |-> "CM"])>>
    /\ solid[1].value = Ret(Some(960))
    /\ solid[1].cubic_meter = Ret(Some(240000))

-----------------------------------------------------------------------------
(* Mapper and Proxy: the capability interface of a carrier adapter *)

\* For each method of the base class Mapper, the name its body passes to
\* MethodNotSupportedError: self.__class__.<that method>.__name__.
MapperReports ==
    [create_address_validation_request |-> "create_address_validation_request",
     parse_address_validation_response |-> "parse_address_validation_response",
     create_rate_request |-> "create_rate_request",
     parse_rate_response |-> "parse_rate_response",
     create_tracking_request |-> "create_tracking_request",
     parse_tracking_response |-> "parse_tracking_response",
     create_shipment_request |-> "create_shipment_request",
     parse_shipment_response |-> "parse_shipment_response",
     create_pickup_request |-> "create_pickup_request",
     parse_pickup_response |-> "parse_pickup_response",
     create_modify_pickup_request |-> "create_modify_pickup_request",
     parse_modify_pickup_response |-> "parse_modify_pickup_response",
     create_cancel_pickup_request |-> "create_cancel_pickup_request",
     parse_cancel_pickup_response |-> "parse_cancel_pickup_response"]

\* A mutant of Proxy: modify_pickup reports update_pickup's name.
ProxyReportsMixedUp ==
    [get_rates |-> "get_rates",
     get_tracking |-> "get_tracking",
     create_shipment |-> "create_shipment",
     request_pickup |-> "request_pickup",
     update_pickup |-> "update_pickup",
     modify_pickup |-> "update_pickup",
     cancel_pickup |-> "cancel_pickup",
     validate_address |-> "validate_address"]

\* The same for the transport operations of Proxy.
ProxyReports ==
    [get_rates |-> "get_rates",
     get_tracking |-> "get_tracking",
     create_shipment |-> "create_shipment",
     request_pickup |-> "request_pickup",
     update_pickup |-> "update_pickup",
     modify_pickup |-> "modify_pickup",
     cancel_pickup |-> "cancel_pickup",
     validate_address |-> "validate_address"]

Reports(base) == IF base = "Mapper" THEN MapperReports ELSE ProxyReports
Methods(base) == DOMAIN Reports(base)

\* raise MethodNotSupportedError(method, self.__class__.__name__)
MethodNotSupportedError(method, class) ==
    [exc |-> "MethodNotSupportedError", method |-> method, class |-> class]

\* A method the subclass overrides runs the subclass's own code.
Overridden == [exc |-> "none", method |-> "None", class |-> "None"]

\* instance.method(...): the subclass's method if it defines one, else the
\* base class's, looked up through self.__class__.
CallMethod(a, method) ==
    IF method \in a.overrides THEN Overridden
    ELSE MethodNotSupportedError(Reports(a.base)[method], a.class)

\* The adapters: subclasses of Mapper and of Proxy overriding some, all or
\* none of the capabilities.
Adapters ==
    [base : {"Mapper"}, class : {"DHLMapper", "PartialMapper"},
     overrides : {{}, {"create_rate_request", "parse_rate_response"},
                  {"create_modify_pickup_request", "parse_modify_pickup_response",
                   "create_cancel_pickup_request"}}]
    \cup [base : {"Proxy"}, class : {"DHLProxy", "PartialProxy"},
          overrides : {{}, {"get_rates"}, {"update_pickup", "cancel_pickup"}}]

InitAdapter ==
    /\ IdleUnits /\ IdlePackage /\ IdlePackages /\ IdleFlow /\ IdleParse /\ IdleSolid /\ IdleOptions /\ IdlePure /\ IdleSoap /\ IdleText
    /\ adapter \in Adapters
    /\ called = None

Call ==
    /\ called = None
    /\ \E method \in Methods(adapter.base) :
          called' = Some([method |-> method, outcome |-> CallMethod(adapter, method)])
    /\ UNCHANGED <<adapter, unitVars, packageVars, packagesVars, flowVars, parseVars, solidVars, optionsVars, pureVars, soapVars, textVars>>

NextAdapter == Call

SpecAdapter == InitAdapter /\ [][NextAdapter]_vars

\* C14: every capability method of Mapper and every transport operation of
\* Proxy, called on a subclass that does not override it, fails with the
\* capability-not-supported error carrying that method's name and the
\* subclass's name.
C14_NamesMethodAndSubclass ==
    (called # None /\ called[1].method \notin adapter.overrides) =>
        /\ called[1].outcome.exc = "MethodNotSupportedError"
        /\ called[1].outcome.method = called[1].method
        /\ called[1].outcome.class = adapter.class
        /\ called[1].outcome.class \notin {"Mapper", "Proxy"}

\* modify_pickup called on a Proxy subclass that overrides only update_pickup
\* and cancel_pickup.
C14_Witness ==
    /\ called # None
    /\ adapter = [base |-> "Proxy", class |-> "PartialProxy",
                  overrides |-> {"update_pickup", "cancel_pickup"}]
    /\ called[1].method = "modify_pickup"
    /\ called[1].outcome = MethodNotSupportedError("modify_pickup", "PartialProxy")

-----------------------------------------------------------------------------
(* Options: the bags under test *)

\* The keys a bag may hold (two of them are no member names) and the entries
\* under each: mappings of fields, or a plain text (held as [text |-> ...]).
OptionKeys == OptionsCode \cup {"COD", "signature_confirmation"}
OptionEntries(key) ==
    CASE key = "cash_on_delivery" -> {[amount |-> 25000]}
      [] key = "insurance" -> {[amount |-> 100000]}
      [] key = "notification" -> {[email |-> "shipper@example.com", locale |-> "en"]}
      [] key = "currency" -> {[text |-> "USD"], [text |-> "CAD"]}
      [] key = "printing" -> {[text |-> "PDF"]}
      [] OTHER -> {[text |-> "true"]}

OptionBags ==
    UNION {{b \in [keys -> UNION {OptionEntries(k) : k \in keys}] :
               \A k \in keys : b[k] \in OptionEntries(k)} : keys \in SUBSET OptionKeys}

InitOptions ==
    /\ IdleUnits /\ IdlePackage /\ IdlePackages /\ IdleFlow /\ IdleParse /\ IdleSolid /\ IdlePure /\ IdleSoap /\ IdleText
    /\ IdleAdapter
    /\ bag \in OptionBags
    /\ opts = None

ReadOptions ==
    /\ opts = None
    /\ opts' = Some([has_content |-> OptionsHasContent(bag),
                     cash_on_delivery |-> OptionsCashOnDelivery(bag),
                     currency |-> OptionsCurrency(bag),
                     insurance |-> OptionsInsurance(bag),
                     notification |-> OptionsNotification(bag),
                     printing |-> OptionsPrinting(bag)])
    /\ UNCHANGED <<bag, unitVars, packageVars, packagesVars, flowVars, parseVars, solidVars, adapterVars, pureVars, soapVars, textVars>>

NextOptions == ReadOptions

SpecOptions == InitOptions /\ [][NextOptions]_vars

-----------------------------------------------------------------------------
(* Claims about Options *)

Recognized == {"cash_on_delivery", "currency", "insurance", "notification", "printing"}

\* C15: has_content is true if and only if at least one key of the bag is
\* one of cash_on_delivery, currency, insurance, notification, printing.
C15_HasContent ==
    opts # None => (opts[1].has_content <=> DOMAIN bag \cap Recognized # {})

\* A bag holding only unrecognized keys, "COD" among them: no content.
C15_Witness ==
    /\ opts # None
    /\ DOMAIN bag = {"COD", "signature_confirmation"}
    /\ opts[1].has_content = FALSE

\* What the accessor of a key is to return: null without the key, else the
\* entry itself (currency, printing) or the typed value built from it.
C16_Expected(b, key) ==
    IF key \notin DOMAIN b THEN None
    ELSE IF key = "cash_on_delivery" THEN Some([class |-> "COD", fields |-> b[key]])
    ELSE IF key = "insurance" THEN Some([class |-> "Insurance", fields |-> b[key]])
    ELSE IF key = "notification" THEN Some([class |-> "Notification", fields |-> b[key]])
    ELSE Some(b[key])

C16_Read(key) ==
    CASE key = "cash_on_delivery" -> opts[1].cash_on_delivery
      [] key = "currency" -> opts[1].currency
      [] key = "insurance" -> opts[1].insurance
      [] key = "notification" -> opts[1].notification
      [] key = "printing" -> opts[1].printing

\* C16: each typed accessor returns null when its key is absent and the
\* value reconstructed from that key's entry when present, and depends on its
\* own key only: the bag cut down to that one key gives the same answer.
C16_AccessorsByOwnKey ==
    opts # None =>
        \A key \in Recognized :
            /\ C16_Read(key) = C16_Expected(bag, key)
            /\ C16_Read(key) =
                  C16_Expected([k \in DOMAIN bag \cap {key} |-> bag[k]], key)

\* A bag with an insurance entry and an unrecognized key, and no currency:
\* insurance is reconstructed, every other accessor is null.
C16_Witness ==
    /\ opts # None
    /\ DOMAIN bag = {"insurance", "signature_confirmation"}
    /\ opts[1].insurance = Some([class |-> "Insurance", fields |-> [amount |-> 100000]])
    /\ opts[1].currency = None /\ opts[1].cash_on_delivery = None
    /\ opts[1].notification = None /\ opts[1].printing = None

-----------------------------------------------------------------------------
(* Claims about the rates *)

RateParsers == {"parse_dct_response", "parse_freight_rate_response"}

\* The quote records of the response, in document order.
QuoteRecords ==
    SelectSeq(Descendants(response), LAMBDA n : n.tag \in {"QtdShp", "FreightRateResponse"})

\* The total charge of a quote record: DHL's ShippingCharge, the value of UPS's
\* AFTR_DSCNT line; None when the record has none.
TotalCharge(n) ==
    IF n.tag = "QtdShp" THEN n.data.ShippingCharge
    ELSE LET total == SelectSeq(n.data.Rate, LAMBDA r : r.Code = "AFTR_DSCNT")
         IN  IF total = <<>> THEN None ELSE total[1].Value

\* Apart from its total charge the record lacks nothing: a DHL quote has its
\* delivery date and named charge lines, a UPS quote its currency.
OtherwiseComplete(n) ==
    IF n.tag = "QtdShp"
    THEN /\ n.data.DeliveryDate # <<>>
         /\ \A i \in 1..Len(n.data.QtdShpExChrg) :
               n.data.QtdShpExChrg[i].LocalServiceTypeName # "None"
    ELSE n.data.CurrencyCode # None

\* C17: in every rate parser a quote record whose total charge is zero or
\* absent is left out of the rate list, without failure, and every other
\* quote record, wherever it is in the tree, gives exactly one rate: the
\* rates are the totals of the records with a non-zero total, in order.
C17_ZeroOrAbsentTotalExcluded ==
    \A p \in RateParsers :
        (Parsed(p) /\ \A i \in 1..Len(QuoteRecords) : OtherwiseComplete(QuoteRecords[i])) =>
            LET priced == SelectSeq(QuoteRecords, LAMBDA n : Truthy(TotalCharge(n)))
            IN  /\ parsed[1].exc = "none"
                /\ Len(parsed[1].result) = Len(priced)
                /\ \A i \in 1..Len(priced) :
                      parsed[1].result[i].total_charge = TotalCharge(priced[i])[1]

\* The DHL parser has left out a quote without charge and one with a charge
\* of zero, and kept the priced quote wrapped in another element.
C17_Witness ==
    /\ Parsed("parse_dct_response")
    /\ Len(QuoteRecords) = 2
    /\ ~Truthy(TotalCharge(QuoteRecords[1]))
    /\ Truthy(TotalCharge(QuoteRecords[2]))
    /\ OtherwiseComplete(QuoteRecords[2])
    /\ response.kids[2].tag = "Wrapper"
    /\ parsed[1].exc = "none"
    /\ Len(parsed[1].result) = 1
    /\ parsed[1].result[1].total_charge = 25000

\* The wire name and amount of the charge lines of a quote record.
C18_Lines(n) ==
    IF n.tag = "QtdShp"
    THEN [i \in 1..Len(n.data.QtdShpExChrg) |->
             [name |-> n.data.QtdShpExChrg[i].LocalServiceTypeName,
              amount |-> n.data.QtdShpExChrg[i].ChargeValue[1]]]
    ELSE [i \in 1..Len(n.data.Rate) |->
             [name |-> n.data.Rate[i].Code, amount |-> n.data.Rate[i].Value[1]]]

\* The sum of the amounts of the lines whose name is in the set.
C18_Sum(lines, names) ==
    LET sum[i \in 0..Len(lines)] ==
            IF i = 0 THEN 0
            ELSE sum[i - 1] + (IF lines[i].name \in names THEN lines[i].amount ELSE 0)
    IN  sum[Len(lines)]

\* The names classified as discount and as duty / tax: DHL's names holding
\* "Discount" and "TAXES PAID"; UPS's code DSCNT and, as duty / tax, the codes
\* it files under surcharges.
C18_Discounts == {"Weekly Discount", "DSCNT"}
C18_Taxes(n) ==
    IF n.tag = "QtdShp" THEN {"DUTIES & TAXES PAID"}
    ELSE {n.data.Rate[i].Code : i \in 1..Len(n.data.Rate)}
             \ {"DSCNT", "AFTR_DSCNT", "DSCNT_RATE", "LND_GROSS"}

\* The quote records that gave the rates, in order: the priced ones.
C18_Emitted == SelectSeq(QuoteRecords, LAMBDA n : n.tag # "QtdShp" \/ Truthy(TotalCharge(n)))

C18_Kept(rate, line) ==
    \E j \in 1..Len(rate.extra_charges) :
        /\ rate.extra_charges[j].name = line.name
        /\ rate.extra_charges[j].amount = line.amount

C18_Subtotals(rate, n) ==
    /\ rate.discount = C18_Sum(C18_Lines(n), C18_Discounts)
    /\ rate.duties_and_taxes = C18_Sum(C18_Lines(n), C18_Taxes(n))

C18_RatesRead(p) == Parsed(p) /\ parsed[1].exc = "none"

\* C18 (as stated): for each emitted rate the discount and the duties-and-taxes
\* subtotals are the sums of the lines so classified, and every line of the
\* wire record that is classified as neither is among the extra charges.
C18_NoLineDropped ==
    \A p \in RateParsers :
        C18_RatesRead(p) =>
            \A i \in 1..Len(parsed[1].result) :
                LET rate == parsed[1].result[i]
                    n == C18_Emitted[i]
                    lines == C18_Lines(n)
                IN  /\ C18_Subtotals(rate, n)
                    /\ \A k \in 1..Len(lines) :
                          lines[k].name \notin C18_Discounts \cup C18_Taxes(n)
                              => C18_Kept(rate, lines[k])

\* C18, amended: the subtotals are as stated; DHL keeps every charge line in
\* the extra charges; UPS freight keeps the discount and surcharge lines and
\* leaves out the lines of code AFTR_DSCNT, DSCNT_RATE and LND_GROSS.
C18_SubtotalsAndExtraCharges ==
    \A p \in RateParsers :
        C18_RatesRead(p) =>
            \A i \in 1..Len(parsed[1].result) :
                LET rate == parsed[1].result[i]
                    n == C18_Emitted[i]
                    lines == C18_Lines(n)
                IN  /\ C18_Subtotals(rate, n)
                    /\ \A k \in 1..Len(lines) :
                          IF n.tag = "QtdShp"
                             \/ lines[k].name \notin {"AFTR_DSCNT", "DSCNT_RATE", "LND_GROSS"}
                          THEN C18_Kept(rate, lines[k])
                          ELSE \A j \in 1..Len(rate.extra_charges) :
                                  rate.extra_charges[j].name # lines[k].name

\* A DHL rate from a quote with a fuel surcharge, a discount and taxes paid.
C18_Witness ==
    /\ C18_RatesRead("parse_dct_response")
    /\ Len(parsed[1].result) = 1
    /\ Len(C18_Lines(C18_Emitted[1])) = 3
    /\ parsed[1].result[1].discount = 1250
    /\ parsed[1].result[1].duties_and_taxes = 4000
    /\ Len(parsed[1].result[1].extra_charges) = 3

-----------------------------------------------------------------------------
(* Error walkers: extract_fault (core/utils/soap.py), parse_error_response
   (providers/usps/error.py) *)

\* str(n) of an integer
Digit(d) ==
    CASE d = 0 -> "0" [] d = 1 -> "1" [] d = 2 -> "2" [] d = 3 -> "3" [] d = 4 -> "4"
      [] d = 5 -> "5" [] d = 6 -> "6" [] d = 7 -> "7" [] d = 8 -> "8" [] OTHER -> "9"
RECURSIVE str(_)
str(n) ==
    IF n < 0 THEN "-" \o str(0 - n)
    ELSE IF n < 10 THEN Digit(n)
    ELSE str(n \div 10) \o Digit(n % 10)

\* A mutant of extract_fault: only the children of the root are looked at.
extract_fault_of_children(resp) ==
    LET faults == SelectSeq(resp.kids, LAMBDA n : n.tag = "Fault")
    IN  Ret([i \in 1..Len(faults) |->
                Message(faults[i].data.faultcode, faults[i].data.faultstring)])

\* extract_fault: build(Fault, node) for every node the xpath finds, then one
\* Message per fault.
extract_fault(resp) ==
    LET faults == xpath(resp, "Fault")
    IN  Ret([i \in 1..Len(faults) |->
                Message(faults[i].data.faultcode, faults[i].data.faultstring)])

\* A mutant of the USPS parse_error_response: the root is never looked at.
usps_parse_error_response_below(resp) ==
    LET error_nodes == xpath(resp, "Error")
    IN  Ret([i \in 1..Len(error_nodes) |->
                Message(str(error_nodes[i].data.Number), error_nodes[i].data.Description)])

\* parse_error_response of the USPS adapter: the response itself when its tag
\* is Error, else the Error nodes the xpath finds.
usps_parse_error_response(resp) ==
    LET error_nodes == IF resp.tag = "Error" THEN <<resp>> ELSE xpath(resp, "Error")
    IN  Ret([i \in 1..Len(error_nodes) |->
                Message(str(error_nodes[i].data.Number), error_nodes[i].data.Description)])

ErrorWalkers == {"extract_fault", "usps_parse_error_response"}

\* The content of Fault and Error elements, and of elements that are neither
FaultData ==
    {[faultcode |-> "soap:Client", faultstring |-> "Invalid request"],
     [faultcode |-> "soap:Server", faultstring |-> "Service unavailable"]}
ErrorData ==
    {[Number |-> 80040, Description |-> "Invalid ZIP code"],
     [Number |-> -2147219401, Description |-> "Address not found"]}
Tagged ==
    {[tag |-> "Fault", data |-> d] : d \in FaultData}
        \cup {[tag |-> "Error", data |-> d] : d \in ErrorData}
        \cup {[tag |-> "Detail", data |-> None]}

\* Elements without children, and elements with up to two of those
Leaves == {Node(t.tag, t.data, <<>>) : t \in {x \in Tagged : x.data \in
              {None,
               [faultcode |-> "soap:Client", faultstring |-> "Invalid request"],
               [Number |-> 80040, Description |-> "Invalid ZIP code"]}}}
Branches ==
    {Node(t.tag, t.data, kids) :
        t \in {x \in Tagged : x.data \in
                  {None,
                   [faultcode |-> "soap:Server", faultstring |-> "Service unavailable"],
                   [Number |-> -2147219401, Description |-> "Address not found"]}},
        kids \in UNION {[1..n -> Leaves] : n \in 0..2}}

\* The roots a walker is handed: a SOAP Envelope for extract_fault; an Error
\* element or a response element for the USPS walker.
Roots(p) ==
    IF p = "extract_fault" THEN {[tag |-> "Envelope", data |-> None]}
    ELSE {[tag |-> "Error", data |-> [Number |-> 80040, Description |-> "Invalid ZIP code"]],
          [tag |-> "RateV4Response", data |-> None]}

WalkedTrees(p) ==
    {Node(r.tag, r.data, kids) :
        r \in Roots(p), kids \in UNION {[1..n -> Leaves \cup Branches] : n \in 0..2}}

InitErrors ==
    /\ IdleUnits /\ IdlePackage /\ IdlePackages /\ IdleFlow /\ IdleSolid /\ IdleAdapter /\ IdleOptions /\ IdlePure /\ IdleSoap /\ IdleText
    /\ parser \in ErrorWalkers
    /\ response \in WalkedTrees(parser)
    /\ parsed = None

ParseFault == Parse("extract_fault", extract_fault(response))
ParseUspsError == Parse("usps_parse_error_response", usps_parse_error_response(response))

NextErrors == ParseFault \/ ParseUspsError

SpecErrors == InitErrors /\ [][NextErrors]_vars

-----------------------------------------------------------------------------
(* Claims about the error walkers *)

\* Every node of the response tree, the root first, in document order
AllNodes == <<response>> \o Descendants(response)
NodesTagged(tag) == SelectSeq(AllNodes, LAMBDA n : n.tag = tag)

\* C25: extract_fault returns exactly one Message per Fault node of the
\* response tree, at whatever depth the node is nested, carrying that node's
\* fault code and fault string and the settings' carrier name and id; a tree
\* without Fault nodes gives an empty list.
C25_OneMessagePerFault ==
    Parsed("extract_fault") =>
        LET faults == NodesTagged("Fault")
        IN  /\ parsed[1].exc = "none"
            /\ parsed[1].val =
                   [i \in 1..Len(faults) |->
                       [carrier_name |-> Settings.carrier_name,
                        carrier_id |-> Settings.carrier_id,
                        code |-> faults[i].data.faultcode,
                        message |-> faults[i].data.faultstring]]

\* extract_fault has walked an Envelope whose Body-level Fault holds another
\* Fault: two messages, the outer one first.
C25_Witness ==
    /\ Parsed("extract_fault")
    /\ Len(response.kids) = 1
    /\ response.kids[1].tag = "Fault"
    /\ Len(response.kids[1].kids) = 1
    /\ response.kids[1].kids[1].tag = "Fault"
    /\ Len(parsed[1].val) = 2
    /\ parsed[1].val[1].code = "soap:Server"
    /\ parsed[1].val[2].code = "soap:Client"

C28_MessageOf(n) ==
    [carrier_name |-> Settings.carrier_name, carrier_id |-> Settings.carrier_id,
     code |-> str(n.data.Number), message |-> n.data.Description]

\* C28 as stated: the USPS parse_error_response returns exactly one Message
\* per Error node of the response tree, the root included when the root
\* itself is an Error node and nested Error nodes at any depth included, each
\* carrying that node's number (as a string) and description; a tree without
\* Error nodes gives an empty list.
C28_OneMessagePerError ==
    Parsed("usps_parse_error_response") =>
        LET errors == NodesTagged("Error")
        IN  /\ parsed[1].exc = "none"
            /\ parsed[1].val = [i \in 1..Len(errors) |-> C28_MessageOf(errors[i])]

\* C28, amended: when the root itself is an Error node the USPS
\* parse_error_response returns exactly one Message, that of the root, and
\* none for the Error nodes below it; otherwise it returns exactly one
\* Message per Error node below the root, at any depth; each Message carries
\* its node's number (as a string) and description; a tree without Error
\* nodes gives an empty list.
C28_RootOrNested ==
    Parsed("usps_parse_error_response") =>
        LET below == SelectSeq(Descendants(response), LAMBDA n : n.tag = "Error")
        IN  /\ parsed[1].exc = "none"
            /\ parsed[1].val =
                   IF response.tag = "Error" THEN <<C28_MessageOf(response)>>
                   ELSE [i \in 1..Len(below) |-> C28_MessageOf(below[i])]

\* The USPS walker has been handed an Error root that holds an Error inside
\* a Detail: one message, the root's.
C28_Witness ==
    /\ Parsed("usps_parse_error_response")
    /\ response.tag = "Error"
    /\ Len(response.kids) = 1
    /\ response.kids[1].tag = "Detail"
    /\ Len(response.kids[1].kids) = 1
    /\ response.kids[1].kids[1].tag = "Error"
    /\ parsed[1].val = <<C28_MessageOf(response)>>
    /\ parsed[1].val[1].code = "80040"

-----------------------------------------------------------------------------
(* Claims about what the parsers do with errors *)

\* C26: carrier-reported messages and absent optional fields never abort a
\* parse: for any structurally valid response tree, including a quote record
\* without delivery date, without charge-line names or without a total-charge
\* line, the rate parsers return a (rates, messages) pair instead of raising.
C26_NeverRaises ==
    \A p \in RateParsers : Parsed(p) => parsed[1].exc = "none"

\* The DHL parser has been handed a response with one quote record that has
\* its shipping charge and no delivery date, and has raised IndexError.
C26_Witness ==
    /\ Parsed("parse_dct_response")
    /\ Len(QuoteRecords) = 1
    /\ Truthy(QuoteRecords[1].data.ShippingCharge)
    /\ QuoteRecords[1].data.DeliveryDate = <<>>
    /\ QuoteRecords[1].data.QtdShpExChrg = <<>>
    /\ parsed[1].exc = "IndexError"

\* C29: the Canada Post parse_cancel_pickup_response returns a
\* ConfirmationDetails with success=True if and only if the error list
\* extracted from the response is empty, and a null confirmation otherwise;
\* the extracted error list is returned in both cases.
C29_ConfirmedIffNoError ==
    Parsed("parse_cancel_pickup_response") =>
        LET errors == parse_error_response(response)
        IN  /\ parsed[1].exc = "none"
            /\ parsed[1].messages = errors
            /\ (parsed[1].result # None) <=> (errors = <<>>)
            /\ parsed[1].result # None => parsed[1].result[1].success = TRUE

\* The cancellation of a pickup has been parsed from a response carrying an
\* error inside a wrapper: no confirmation, and the error beside it.
C29_Witness ==
    /\ Parsed("parse_cancel_pickup_response")
    /\ Len(response.kids) = 1
    /\ response.kids[1].tag = "Wrapper"
    /\ response.kids[1].kids[1].tag = "Error"
    /\ parsed[1].result = None
    /\ Len(parsed[1].messages) = 1

-----------------------------------------------------------------------------
(* Claims about where a Package takes its values and its units from *)

C30_Preset == PackagePresetOf(template)
C30_Sizes == {"width", "height", "length"}

\* The effective attribute is the preset's value / the parcel's value
C30_FromPreset(a) ==
    /\ package[1][a].value # None
    /\ IF a = "weight" THEN ~Truthy(parcel.weight) ELSE Truthy(C30_Preset[a])
C30_FromParcel(a) ==
    /\ package[1][a].value # None
    /\ ~C30_FromPreset(a)

C30_PresetUnit(a) ==
    IF a = "weight" THEN C30_Preset.weight_unit ELSE C30_Preset.dimension_unit
C30_ParcelUnit(a) ==
    IF a = "weight" THEN parcel.weight_unit ELSE parcel.dimension_unit

\* C30: for every Package, an effective attribute's value and its unit come
\* from the same source: a value taken from the preset is never paired with
\* the parcel's declared unit, and a value taken from the parcel is never
\* paired with the preset's unit when the parcel declares one.
C30_ValueAndUnitFromOneSource ==
    (package # Idle /\ package # None) =>
        \A a \in C30_Sizes \cup {"weight"} :
            /\ C30_FromPreset(a) => package[1][a].unit = C30_PresetUnit(a)
            /\ (C30_FromParcel(a) /\ C30_ParcelUnit(a) # NoUnit) =>
                   package[1][a].unit = C30_ParcelUnit(a)

\* A parcel giving only a height, in CM, and a weight of 0, in KG, with a
\* preset fixing the width in IN and the weight in LB: the preset's width is
\* read as CM and the preset's weight as KG.
C30_Witness ==
    /\ package # Idle /\ package # None
    /\ template # None
    /\ parcel.width = None /\ parcel.length = None /\ parcel.height = Some(2000)
    /\ parcel.dimension_unit = "CM" /\ template[1].dimension_unit = "IN"
    /\ parcel.weight = Some(0) /\ parcel.weight_unit = "KG"
    /\ template[1].weight_unit = "LB"
    /\ template[1].height = None
    /\ package[1].width = Measure(template[1].width, "CM") /\ template[1].width # None
    /\ package[1].weight = Measure(template[1].weight, "KG") /\ template[1].weight # None

-----------------------------------------------------------------------------
(* SOAP envelopes (purplship/core/utils/soap.py), and the freight rate
   request that wraps its body in one *)

\* a or b on optional strings: None and "" are falsy.
OrStr(a, b) == IF a # None /\ a[1] # "" THEN a ELSE b

\* create_envelope, the header child: ns_prefix_ and original_tagname_ are
\* assigned on the object passed as header_content.
NewHeaderChild(args, obj) ==
    [ns_prefix_ |-> OrStr(args.header_prefix, obj.ns_prefix_),
     original_tagname_ |-> OrStr(args.header_tag_name, obj.original_tagname_)]

\* create_envelope, the body child: assigned on the object passed as
\* body_content.
NewBodyChild(args, obj) ==
    [ns_prefix_ |-> OrStr(args.body_prefix, obj.ns_prefix_),
     original_tagname_ |-> OrStr(args.body_tag_name, obj.original_tagname_)]

\* A mutant of create_envelope: the Header keeps the prefix it was made with.
EnvelopeOfHeaderUnprefixed(args) ==
    [ns_prefix_ |-> args.envelope_prefix,
     Header |-> IF args.header_content = None THEN None
                ELSE Some([ns_prefix_ |-> None, child |-> args.header_content[1]]),
     Body |-> [ns_prefix_ |-> args.envelope_prefix, child |-> args.body_content]]

\* create_envelope, the envelope: Envelope(Header=header, Body=body), whose
\* prefix goes to its Body and, if it has one, to its Header.  The Header and
\* the Body hold the children they were given, by reference.
EnvelopeOf(args) ==
    [ns_prefix_ |-> args.envelope_prefix,
     Header |-> IF args.header_content = None THEN None
                ELSE Some([ns_prefix_ |-> args.envelope_prefix,
                           child |-> args.header_content[1]]),
     Body |-> [ns_prefix_ |-> args.envelope_prefix, child |-> args.body_content]]

\* An envelope as export() sees it: every reference followed.
Exported(env, objs) ==
    [ns_prefix_ |-> env.ns_prefix_,
     Header |-> IF env.Header = None THEN None
                ELSE Some([ns_prefix_ |-> env.Header[1].ns_prefix_,
                           child |-> objs[env.Header[1].child]]),
     Body |-> [ns_prefix_ |-> env.Body.ns_prefix_, child |-> objs[env.Body.child]]]

\* create_envelope, run from its first line to its last without another
\* invocation in between: the objects after it, and the envelope exported.
create_envelope(args, objs) ==
    LET withHeader ==
            IF args.header_content = None THEN objs
            ELSE [objs EXCEPT ![args.header_content[1]] = NewHeaderChild(args, @)]
        withBody == [withHeader EXCEPT ![args.body_content] = NewBodyChild(args, @)]
    IN  [objects |-> withBody, envelope |-> Exported(EnvelopeOf(args), withBody)]

\* A mutant of freight_rate_request: the header child is given the prefix
\* of the UPS security header.
FreightEnvelopeArgsPrefixed(header, body) ==
    [body_content |-> body, header_content |-> Some(header),
     header_prefix |-> Some("upss"), body_prefix |-> None,
     header_tag_name |-> None, body_tag_name |-> None,
     envelope_prefix |-> Some("tns")]

\* freight_rate_request: create_envelope(header_content=settings.Security,
\* body_content=request), every other argument at its default.
FreightEnvelopeArgs(header, body) ==
    [body_content |-> body, header_content |-> Some(header),
     header_prefix |-> None, body_prefix |-> None,
     header_tag_name |-> None, body_tag_name |-> None,
     envelope_prefix |-> Some("tns")]

\* The generated objects: one header fragment and one body fragment per
\* invocation, and the Security object of the carrier settings.
Invocations == {1, 2}
ObjectIds == {"security", "header1", "header2", "body1", "body2"}
Prefixes == {None, Some("ns1")}
ObjectValues == [ns_prefix_ : Prefixes, original_tagname_ : {Some("Fragment")}]

\* An invocation not started, with the objects as they are when it starts
Started(args, objs) ==
    [args |-> args, pc |-> "header", envelope |-> None,
     header_own |-> IF args.header_content = None THEN None
                    ELSE Some(objs[args.header_content[1]]),
     body_own |-> objs[args.body_content]]
Absent == [pc |-> "absent"]

\* One invocation of create_envelope, with arguments of every kind.
InitEnvelope ==
    /\ IdleUnits /\ IdlePackage /\ IdlePackages /\ IdleFlow /\ IdleParse /\ IdleSolid /\ IdleAdapter /\ IdleOptions /\ IdlePure /\ IdleText
    /\ objects \in [ObjectIds -> ObjectValues]
    /\ \A id \in ObjectIds \ {"header1", "body1"} : objects[id].ns_prefix_ = None
    /\ \E args \in [body_content : {"body1"},
                    header_content : {None, Some("header1")},
                    header_prefix : {None, Some(""), Some("upss")},
                    body_prefix : {None, Some(""), Some("frt")},
                    header_tag_name : {None, Some("UPSSecurity")},
                    body_tag_name : {None, Some("FreightRateRequest")},
                    envelope_prefix : {Some("tns"), Some("soapenv")}] :
           calls = [i \in Invocations |-> IF i = 1 THEN Started(args, objects) ELSE Absent]

\* Two invocations of freight_rate_request under way, each with the request
\* it has built from its own payload, and with the Security object of its
\* settings: one carrier's settings for both, or settings of their own.
InitStateless ==
    /\ IdleUnits /\ IdlePackage /\ IdlePackages /\ IdleFlow /\ IdleParse /\ IdleSolid /\ IdleAdapter /\ IdleOptions /\ IdlePure /\ IdleText
    /\ objects \in [ObjectIds -> ObjectValues]
    /\ \E shared \in BOOLEAN :
           calls = [i \in Invocations |->
                       Started(FreightEnvelopeArgs(
                                   IF shared THEN "security"
                                   ELSE IF i = 1 THEN "header1" ELSE "header2",
                                   IF i = 1 THEN "body1" ELSE "body2"),
                               objects)]

\* create_envelope, lines 33-40
SetHeader(i) ==
    /\ calls[i].pc = "header"
    /\ objects' = IF calls[i].args.header_content = None THEN objects
                  ELSE [objects EXCEPT ![calls[i].args.header_content[1]] =
                                           NewHeaderChild(calls[i].args, @)]
    /\ calls' = [calls EXCEPT ![i].pc = "body"]
    /\ UNCHANGED <<unitVars, packageVars, packagesVars, flowVars, parseVars, solidVars, adapterVars, optionsVars, pureVars, textVars>>

\* create_envelope, lines 42-45
SetBody(i) ==
    /\ calls[i].pc = "body"
    /\ objects' = [objects EXCEPT ![calls[i].args.body_content] =
                                      NewBodyChild(calls[i].args, @)]
    /\ calls' = [calls EXCEPT ![i].pc = "envelope"]
    /\ UNCHANGED <<unitVars, packageVars, packagesVars, flowVars, parseVars, solidVars, adapterVars, optionsVars, pureVars, textVars>>

\* create_envelope, lines 47-52
Assemble(i) ==
    /\ calls[i].pc = "envelope"
    /\ calls' = [calls EXCEPT ![i].pc = "done", ![i].envelope = Some(EnvelopeOf(calls[i].args))]
    /\ UNCHANGED <<objects, unitVars, packageVars, packagesVars, flowVars, parseVars, solidVars, adapterVars, optionsVars, pureVars, textVars>>

NextEnvelope == \E i \in Invocations : SetHeader(i) \/ SetBody(i) \/ Assemble(i)

SpecEnvelope == InitEnvelope /\ [][NextEnvelope]_vars
SpecStateless == InitStateless /\ [][NextEnvelope]_vars

-----------------------------------------------------------------------------
(* Claims about the envelopes *)

C24_Given(prefix) == prefix # None /\ prefix # Some("")

\* C24: create_envelope assigns the three prefixes independently: the
\* envelope root (and its Header and Body elements) gets envelope_prefix,
\* the header child gets header_prefix and the body child gets body_prefix,
\* each child keeping its own prefix when none is given; choosing one of the
\* three never changes the other two; the envelope has no Header exactly
\* when no header fragment is given.
C24_ThreePrefixes ==
    (calls[1].pc = "done" /\ calls[2].pc = "absent") =>
        LET args == calls[1].args
            env == Exported(calls[1].envelope[1], objects)
        IN  /\ env.ns_prefix_ = args.envelope_prefix
            /\ env.Body.ns_prefix_ = args.envelope_prefix
            /\ env.Body.child.ns_prefix_ =
                   IF C24_Given(args.body_prefix) THEN args.body_prefix
                   ELSE calls[1].body_own.ns_prefix_
            /\ (env.Header = None) <=> (args.header_content = None)
            /\ env.Header # None =>
                   /\ env.Header[1].ns_prefix_ = args.envelope_prefix
                   /\ env.Header[1].child.ns_prefix_ =
                          IF C24_Given(args.header_prefix) THEN args.header_prefix
                          ELSE calls[1].header_own[1].ns_prefix_

\* An envelope has been made with envelope prefix soapenv, a header prefix
\* given and no body prefix: the header child carries the given prefix, the
\* body child the one it had.
C24_Witness ==
    /\ calls[1].pc = "done" /\ calls[2].pc = "absent"
    /\ calls[1].args.envelope_prefix = Some("soapenv")
    /\ calls[1].args.header_prefix = Some("upss")
    /\ calls[1].args.body_prefix = None
    /\ calls[1].header_own = Some([ns_prefix_ |-> Some("ns1"), original_tagname_ |-> Some("Fragment")])
    /\ calls[1].body_own.ns_prefix_ = Some("ns1")
    /\ LET env == Exported(calls[1].envelope[1], objects)
       IN  /\ env.ns_prefix_ = Some("soapenv")
           /\ env.Header[1].ns_prefix_ = Some("soapenv")
           /\ env.Header[1].child.ns_prefix_ = Some("upss")
           /\ env.Body.child.ns_prefix_ = Some("ns1")

\* C22: request builders are stateless: no invocation changes its
\* arguments, the carrier settings or an object reachable from another
\* invocation, so every interleaving of two invocations produces the
\* results of running them one after the other.
C22_Stateless ==
    (\A i \in Invocations : calls[i].pc # "absent") =>
        \A i \in Invocations :
            /\ objects[calls[i].args.header_content[1]] = calls[i].header_own[1]
            /\ objects[calls[i].args.body_content] = calls[i].body_own
            /\ calls[i].pc = "done" =>
                   Exported(calls[i].envelope[1], objects)
                       = create_envelope(calls[i].args,
                                         [id \in ObjectIds |->
                                             IF id = calls[i].args.body_content
                                             THEN calls[i].body_own
                                             ELSE IF Some(id) = calls[i].args.header_content
                                             THEN calls[i].header_own[1]
                                             ELSE objects[id]]).envelope

\* Two invocations with the settings of one carrier have both finished, the
\* second having written the header child between the first's writes.
C22_Witness ==
    /\ \A i \in Invocations : calls[i].pc = "done"
    /\ calls[1].args.header_content = Some("security")
    /\ calls[2].args.header_content = Some("security")
    /\ objects["security"].ns_prefix_ = Some("ns1")

-----------------------------------------------------------------------------
(* clean_namespaces (purplship/core/utils/soap.py) *)

\* A text is a sequence of pieces: "<", "</", ">", a prefix with its colon,
\* and the parts of a name ("UPSSecurity" "Token" is the name
\* UPSSecurityToken).  A name the rewrite looks for is one piece.

\* str.replace(old, new): every occurrence of old, from the left, none
\* overlapping another.
RECURSIVE Replace(_, _, _)
Replace(text, old, new) ==
    IF Len(text) < Len(old) THEN text
    ELSE IF SubSeq(text, 1, Len(old)) = old
    THEN new \o Replace(SubSeq(text, Len(old) + 1, Len(text)), old, new)
    ELSE <<text[1]>> \o Replace(Tail(text), old, new)

clean_namespaces(envelope_str, envelope_prefix, body_child_name, header_child_name, header_child_prefix, body_child_prefix) ==
    LET one == Replace(envelope_str, <<"<", envelope_prefix, header_child_name>>,
                       <<"<", header_child_prefix, header_child_name>>)
        two == Replace(one, <<"</", envelope_prefix, header_child_name>>,
                       <<"</", header_child_prefix, header_child_name>>)
        three == Replace(two, <<"<", envelope_prefix, body_child_name>>,
                         <<"<", body_child_prefix, body_child_name>>)
    IN  Replace(three, <<"</", envelope_prefix, body_child_name>>,
                <<"</", body_child_prefix, body_child_name>>)

\* An element: its prefix, the parts of its name, its child elements
Elem(prefix, name, kids) == [prefix |-> prefix, name |-> name, kids |-> kids]

\* export(): the start tag, the children, the end tag
RECURSIVE export(_), ExportAll(_, _)
ExportAll(kids, i) ==
    IF i > Len(kids) THEN <<>> ELSE export(kids[i]) \o ExportAll(kids, i + 1)
export(el) ==
    <<"<", el.prefix>> \o el.name \o <<">">> \o ExportAll(el.kids, 1)
        \o <<"</", el.prefix>> \o el.name \o <<">">>

\* _request_serializer of the UPS freight rate request: the arguments it
\* passes to clean_namespaces
EnvelopePrefix == "tns:"
HeaderChildPrefix == "upss:"
HeaderChildName == "UPSSecurity"
BodyChildName == "FreightRateRequest"
BodyChildPrefix == "frt:"

\* The elements below the two children
Inside ==
    {Elem(EnvelopePrefix, <<"UsernameToken">>, <<>>),
     Elem(EnvelopePrefix, <<"UPSSecurity", "Token">>, <<>>),
     Elem(EnvelopePrefix, <<"FreightRateRequest", "Option">>, <<>>),
     Elem(EnvelopePrefix, <<"FreightRateRequest">>, <<>>)}

\* Envelopes: a Header, if any, with its child, and a Body with its child;
\* a child is serialized with the envelope's prefix or with one of its own.
Children(name) ==
    {Elem(prefix, <<name>>, kids) :
        prefix \in {EnvelopePrefix, "ns1:"},
        kids \in UNION {[1..n -> Inside] : n \in 0..1}}
Envelopes ==
    {Elem(EnvelopePrefix, <<"Envelope">>, header \o <<Elem(EnvelopePrefix, <<"Body">>, <<b>>)>>) :
        header \in {<<>>} \cup {<<Elem(EnvelopePrefix, <<"Header">>, <<h>>)>> :
                                   h \in Children(HeaderChildName)},
        b \in Children(BodyChildName)}

InitText ==
    /\ IdleUnits /\ IdlePackage /\ IdlePackages /\ IdleFlow /\ IdleParse /\ IdleSolid /\ IdleAdapter /\ IdleOptions /\ IdlePure /\ IdleSoap
    /\ document \in Envelopes
    /\ cleaned = None

\* clean_namespaces(export(envelope), "tns:", ...)
Clean ==
    /\ cleaned = None
    /\ cleaned' = Some(clean_namespaces(export(document), EnvelopePrefix, BodyChildName,
                                        HeaderChildName, HeaderChildPrefix, BodyChildPrefix))
    /\ UNCHANGED <<document, unitVars, packageVars, packagesVars, flowVars, parseVars, solidVars, adapterVars, optionsVars, pureVars, soapVars>>

NextText == Clean

SpecText == InitText /\ [][NextText]_vars

-----------------------------------------------------------------------------
(* Claims about clean_namespaces *)

\* The envelope with the prefix of the header child and of the body child
\* set, and nothing else touched
C23_Child(el, prefix) == Elem(prefix, el.name, el.kids)
C23_Part(el) ==
    IF el.name = <<"Header">> THEN Elem(el.prefix, el.name, <<C23_Child(el.kids[1], HeaderChildPrefix)>>)
    ELSE Elem(el.prefix, el.name, <<C23_Child(el.kids[1], BodyChildPrefix)>>)
C23_Rewritten ==
    Elem(document.prefix, document.name,
         [i \in 1..Len(document.kids) |-> C23_Part(document.kids[i])])

\* C23: clean_namespaces rewrites exactly the start and end tags of the
\* header child and of the body child: in the result every start/end tag of
\* the header child carries header_child_prefix and every start/end tag of
\* the body child carries body_child_prefix, and every other part of the
\* serialized text, including tags whose name merely begins with one of the
\* two child names, is unchanged.
C23_ExactlyTheTwoChildren ==
    (cleaned # Idle /\ cleaned # None) => cleaned[1] = export(C23_Rewritten)

\* The body child, serialized with the envelope's prefix, holds an element
\* whose name begins with the body child's name: the text returned has that
\* element's tags rewritten as well.
C23_Witness ==
    /\ cleaned # Idle /\ cleaned # None
    /\ Len(document.kids) = 1
    /\ document.kids[1].kids[1]
           = Elem(EnvelopePrefix, <<BodyChildName>>,
                  <<Elem(EnvelopePrefix, <<"FreightRateRequest", "Option">>, <<>>)>>)
    /\ cleaned[1] =
           <<"<", "tns:", "Envelope", ">", "<", "tns:", "Body", ">",
             "<", "frt:", "FreightRateRequest", ">",
             "<", "frt:", "FreightRateRequest", "Option", ">",
             "</", "frt:", "FreightRateRequest", "Option", ">",
             "</", "frt:", "FreightRateRequest", ">",
             "</", "tns:", "Body", ">", "</", "tns:", "Envelope", ">">>

====
